---- MODULE Spec2Model ----
(***************************************************************************)
(* CoffeeBreak_NPL: the identifier normalizer (normalize_ids.py), the      *)
(* episode merge engine (consolidate_episode_data.py), the link curator    *)
(* (clean_links.py), the name resolver and its tools                       *)
(* (normalize_contertulios.py, utils_normalization.py) and the             *)
(* derived-field refiner (master_refine.py).                               *)
(*                                                                         *)
(* Strings whose characters the code inspects (episode identifiers, the    *)
(* answers typed at a prompt) are sequences of one-character strings.      *)
(* Strings the code only copies and compares (titles, links) are atoms.    *)
(***************************************************************************)
EXTENDS Integers, Sequences, FiniteSets, TLC

VARIABLES
    \* normalize_ids.py, one run of normalize_episode_ids over one source
    nz_pc,            \* position of the pass
    src_file,         \* the source JSON file on disk: the ids of its items
    bak_file,         \* the .json.bak file: whether it exists, and its content
    data,             \* the loaded list (the ids of its items)
    nz_idx,           \* items of data already visited by the loop
    changes_made,     \* the counter of normalize_episode_ids
    nz_log,           \* levels of the records logged during the pass
    nz_console,       \* what the passes so far printed as their outcome
    \* consolidate_episode_data.py, one run of main()
    pc,               \* position of the run
    files,            \* the three input documents: status and content
    audiofeed_data,   \* loaded documents
    cbinfo_data,
    web_data,
    grouped_parts,    \* result of group_audiofeed_by_episode (insertion order)
    master_data,      \* result of build_episode_structure
    output_file,      \* master_scrapping_data.json: opened flag and content
    exit_code,        \* process exit status, -1 while running
    warnings,         \* number of logger.warning calls of the grouping
    prompts,          \* the Prompt.ask calls made: what was offered
    \* clean_links.py, one run of main()
    lk_pc,            \* position of the run
    lk_args,          \* args.check_domain: <<>> when the option is absent
    lk_unattended,    \* --non-interactive is on the command line
    web_parse_keyed,  \* web_parse.json is a dict keyed by episode, not a list
    web_parse_file,   \* web_parse.json: whether it exists, and its content
    exclusion_file,   \* links_domain_exclusion_list.json, likewise
    lk_data,          \* the loaded document: one meta per episode, in order
    exclusions,       \* the loaded exclusion list
    domain_stats,     \* one entry per exclusion domain, in dict order
    lk_dom,           \* entries of domain_stats already handled
    lk_confirms,      \* the Confirm.ask calls made: what each was about
    lk_exit,          \* process exit status, -1 while running
    \* normalize_contertulios.py, one call of find_best_normalized_match
    rs_pc,            \* position of the call
    rs_name,          \* the name to resolve
    rs_registry,      \* normalized_names: the canonical names with their aliases
    rs_threshold,     \* the threshold argument
    rs_result,        \* the value returned
    \* utils_normalization.py, sessions of assisted_normalization
    rg_pc,            \* position of the session
    rg_session,       \* number of the session on this file
    contertulios_file,\* contertulios.json: whether it exists, and its content
    raw_uniques,      \* the lists and dicts of the session
    normalized,
    aliases,
    canonical_names,
    rg_idx,           \* names of raw_uniques already visited by the loop
    rg_asked,         \* the Prompt.ask calls made: name, suggestions, input
    \* normalize_contertulios.py and normalize_contertulios_master_version.py,
    \* one call of assisted_completion or validate_contertulios
    cp_pc,            \* position of the call
    cp_tool,          \* which of the three functions runs
    non_interactive,  \* the arguments
    cp_names,
    cp_threshold,
    cp_episodes,      \* the list given to the function
    cp_parts,         \* master version: the parts to process, in order
    cp_idx,           \* items already visited by the loop
    cp_updated,       \* updated_episodes, the result under construction
    cp_trace,         \* per item: what was suggested, asked and added
    \* master_refine.py, the runs of one command line
    rf_args,          \* the flags of the command line
    rf_runs,          \* runs made so far
    master_json,      \* master_scrapping_data.json: exists flag and content
    master_bak,       \* master_scrapping_data.bak
    promo_file,       \* promo-links-list.json
    rf_report,        \* what the last run reported
    rf_backup         \* the backup step of the last run and the answer to its prompt

nzvars == <<nz_pc, src_file, bak_file, data, nz_idx, changes_made, nz_log,
            nz_console>>
mgvars == <<pc, files, audiofeed_data, cbinfo_data, web_data, grouped_parts,
            master_data, output_file, exit_code, warnings, prompts>>
lkvars == <<lk_pc, lk_args, lk_unattended, web_parse_keyed,
           web_parse_file, exclusion_file,
            lk_data, exclusions, domain_stats, lk_dom, lk_confirms, lk_exit>>
rsvars == <<rs_pc, rs_name, rs_registry, rs_threshold, rs_result>>
rgvars == <<rg_pc, rg_session, contertulios_file, raw_uniques, normalized,
            aliases, canonical_names, rg_idx, rg_asked>>
cpvars == <<cp_pc, cp_tool, non_interactive, cp_names, cp_threshold, cp_episodes,
            cp_parts, cp_idx, cp_updated, cp_trace>>
rfvars == <<rf_args, rf_runs, master_json, master_bak, promo_file, rf_report,
            rf_backup>>
vars == <<nzvars, mgvars, lkvars, rsvars, rgvars, cpvars, rfvars>>

\* What the actions of one program leave alone: the other programs.
NotNz == <<mgvars, lkvars, rsvars, rgvars, cpvars, rfvars>>
NotMg == <<nzvars, lkvars, rsvars, rgvars, cpvars, rfvars>>
NotLk == <<nzvars, mgvars, rsvars, rgvars, cpvars, rfvars>>
NotRs == <<nzvars, mgvars, lkvars, rgvars, cpvars, rfvars>>
NotRg == <<nzvars, mgvars, lkvars, rsvars, cpvars, rfvars>>
NotCp == <<nzvars, mgvars, lkvars, rsvars, rgvars, rfvars>>
NotRf == <<nzvars, mgvars, lkvars, rsvars, rgvars, cpvars>>

LkIdle ==
    /\ lk_pc = "idle"
    /\ lk_args = <<>>
    /\ lk_unattended = FALSE
    /\ web_parse_keyed = TRUE
    /\ web_parse_file = [exists |-> FALSE, content |-> <<>>]
    /\ exclusion_file = [exists |-> FALSE, content |-> <<>>]
    /\ lk_data = <<>>
    /\ exclusions = <<>>
    /\ domain_stats = <<>>
    /\ lk_dom = 0
    /\ lk_confirms = <<>>
    /\ lk_exit = -1

RsIdle ==
    /\ rs_pc = "idle"
    /\ rs_name = <<>>
    /\ rs_registry = <<>>
    /\ rs_threshold = 0
    /\ rs_result = <<>>

RgIdle ==
    /\ rg_pc = "idle"
    /\ rg_session = 0
    /\ contertulios_file = [exists |-> FALSE, content |-> <<>>]
    /\ raw_uniques = <<>>
    /\ normalized = <<>>
    /\ aliases = <<>>
    /\ canonical_names = <<>>
    /\ rg_idx = 0
    /\ rg_asked = <<>>

CpIdle ==
    /\ cp_pc = "idle"
    /\ cp_tool = "none"
    /\ non_interactive = FALSE
    /\ cp_names = <<>>
    /\ cp_threshold = 0
    /\ cp_episodes = <<>>
    /\ cp_parts = <<>>
    /\ cp_idx = 0
    /\ cp_updated = <<>>
    /\ cp_trace = <<>>


RfIdle ==
    /\ rf_args = <<>>
    /\ rf_runs = 0
    /\ master_json = [exists |-> FALSE, content |-> <<>>]
    /\ master_bak = [exists |-> FALSE, content |-> <<>>]
    /\ promo_file = [readable |-> FALSE, content |-> <<>>]
    /\ rf_report = <<>>
    /\ rf_backup = <<>>
----------------------------------------------------------------------------
(* Characters *)

Digit == {"0", "1", "2", "3", "4", "5", "6", "7", "8", "9"}
LowerAlphabet == <<"a","b","c","d","e","f","g","h","i","j","k","l","m",
                   "n","o","p","q","r","s","t","u","v","w","x","y","z">>
UpperAlphabet == <<"A","B","C","D","E","F","G","H","I","J","K","L","M",
                   "N","O","P","Q","R","S","T","U","V","W","X","Y","Z">>
\* the regex class [A-Za-z]
Letter == {LowerAlphabet[i] : i \in 1..26} \cup {UpperAlphabet[i] : i \in 1..26}

\* str.upper() and str.lower() on one character
CharUpper(c) ==
    IF \E i \in 1..26 : LowerAlphabet[i] = c
    THEN UpperAlphabet[CHOOSE i \in 1..26 : LowerAlphabet[i] = c]
    ELSE c
CharLower(c) ==
    IF \E i \in 1..26 : UpperAlphabet[i] = c
    THEN LowerAlphabet[CHOOSE i \in 1..26 : UpperAlphabet[i] = c]
    ELSE c
StrUpper(s) == [i \in 1..Len(s) |-> CharUpper(s[i])]
StrLower(s) == [i \in 1..Len(s) |-> CharLower(s[i])]

DigitValue(c) ==
    CASE c = "0" -> 0 [] c = "1" -> 1 [] c = "2" -> 2 [] c = "3" -> 3
      [] c = "4" -> 4 [] c = "5" -> 5 [] c = "6" -> 6 [] c = "7" -> 7
      [] c = "8" -> 8 [] c = "9" -> 9
DigitChar(d) == <<"0","1","2","3","4","5","6","7","8","9">>[d + 1]

\* int(s) for a string of decimal digits
RECURSIVE ParseInt(_)
ParseInt(s) ==
    IF Len(s) = 0 THEN 0
    ELSE 10 * ParseInt(SubSeq(s, 1, Len(s) - 1)) + DigitValue(s[Len(s)])

\* str(n) for n >= 0
RECURSIVE DecimalDigits(_)
DecimalDigits(n) ==
    IF n < 10 THEN <<DigitChar(n)>>
    ELSE DecimalDigits(n \div 10) \o <<DigitChar(n % 10)>>

Zeros(k) == [i \in 1..k |-> "0"]

\* the format spec :03d : at least three digits, zero-filled on the left
Format03d_TwoDigits(n) ==
    LET d == DecimalDigits(n) IN IF Len(d) < 2 THEN Zeros(2 - Len(d)) \o d ELSE d
Format03d(n) ==
    LET d == DecimalDigits(n) IN IF Len(d) < 3 THEN Zeros(3 - Len(d)) \o d ELSE d

\* str.zfill(3): zero-fill on the left to width 3, longer strings unchanged
Zfill3(s) == IF Len(s) < 3 THEN Zeros(3 - Len(s)) \o s ELSE s

\* the end of the maximal run of characters of class C that starts at k
\* (k - 1 when s[k] is not in C): a greedy C* at position k
RunEnd(s, k, C) ==
    CHOOSE j \in (k - 1)..Len(s) :
        /\ \A t \in k..j : s[t] \in C
        /\ (j = Len(s) \/ s[j + 1] \notin C)

\* w in s (substring test)
Contains(s, w) ==
    \E i \in 1..(Len(s) - Len(w) + 1) : SubSeq(s, i, i + Len(w) - 1) = w

\* str.replace(" ", "")
RemoveSpaces(s) == SelectSeq(s, LAMBDA c : c # " ")

----------------------------------------------------------------------------
(* normalize_ids.py: normalize_episode_id *)

\* re.search(r'[Ee][Pp]\.?(\d+)([_\-]?[A-Za-z]+)?', s): whether the pattern
\* matches at position i
NormMatchAt(s, i) ==
    /\ i + 2 <= Len(s)
    /\ s[i] \in {"E", "e"}
    /\ s[i + 1] \in {"P", "p"}
    /\ \/ s[i + 2] \in Digit
       \/ s[i + 2] = "." /\ i + 3 <= Len(s) /\ s[i + 3] \in Digit

\* the match object: found, group(1), group(2) (<<>> when it did not take part)
NormSearch(s) ==
    IF \E i \in 1..Len(s) : NormMatchAt(s, i)
    THEN LET i  == CHOOSE k \in 1..Len(s) :
                       NormMatchAt(s, k) /\ \A m \in 1..(k - 1) : ~NormMatchAt(s, m)
             ds == IF s[i + 2] = "." THEN i + 3 ELSE i + 2
             de == RunEnd(s, ds, Digit)
             k  == de + 1
             g2 == IF k + 1 <= Len(s) /\ s[k] \in {"_", "-"} /\ s[k + 1] \in Letter
                   THEN SubSeq(s, k, RunEnd(s, k + 1, Letter))
                   ELSE IF k <= Len(s) /\ s[k] \in Letter
                        THEN SubSeq(s, k, RunEnd(s, k, Letter))
                        ELSE <<>>
         IN [found |-> TRUE, num |-> SubSeq(s, ds, de), suffix |-> g2]
    ELSE [found |-> FALSE, num |-> <<>>, suffix |-> <<>>]

SuplMarkers == { <<"s","u","p","l">>, <<"b","o","n","u","s">>, <<"e","s","p">> }

\* lines 125-135: the suffix as it is appended to the number
StandardizeSuffix_KeepCase(suffix) ==
    IF suffix = <<>> THEN <<>>
    ELSE LET suf == IF suffix[1] \in {"_", "-"} THEN Tail(suffix) ELSE suffix
         IN IF StrUpper(suf) \in { <<"A">>, <<"B">> }
            THEN <<"_">> \o suf
            ELSE IF \E w \in SuplMarkers : Contains(suf, w)
                 THEN <<"_", "S", "u", "p", "l">>
                 ELSE suf
\* a variant that puts the underscore before the suffix as it was matched,
\* separator included
StandardizeSuffix_Doubled(suffix) ==
    IF suffix = <<>> THEN <<>>
    ELSE LET suf == IF suffix[1] \in {"_", "-"} THEN Tail(suffix) ELSE suffix
         IN IF StrUpper(suf) \in { <<"A">>, <<"B">> }
            THEN <<"_">> \o StrUpper(suffix)
            ELSE IF \E w \in SuplMarkers : Contains(StrLower(suf), w)
                 THEN <<"_", "S", "u", "p", "l">>
                 ELSE suf
StandardizeSuffix(suffix) ==
    IF suffix = <<>> THEN <<>>
    ELSE LET suf == IF suffix[1] \in {"_", "-"} THEN Tail(suffix) ELSE suffix
         IN IF StrUpper(suf) \in { <<"A">>, <<"B">> }
            THEN <<"_">> \o StrUpper(suf)
            ELSE IF \E w \in SuplMarkers : Contains(StrLower(suf), w)
                 THEN <<"_", "S", "u", "p", "l">>
                 ELSE suf

normalize_episode_id(episode_id) ==
    LET s == RemoveSpaces(episode_id)
        m == NormSearch(s)
    IN IF m.found
       THEN <<"E", "p">> \o Format03d(ParseInt(m.num)) \o StandardizeSuffix(m.suffix)
       ELSE s

----------------------------------------------------------------------------
(* normalize_ids.py: normalize_episode_ids, for one source file *)

MaxPad == 2          \* leading zeros put before a number in a raw identifier
MaxPasses == 2       \* passes the operator runs over the same source

EpPrefixes == { <<"E","p">>, <<"E","P">>, <<"e","p">> }
Separators1 == { <<>>, <<" ">>, <<".">> }
Numbers == {0, 7, 12, 50, 105, 1000}
NumberStrings == { Zeros(z) \o DecimalDigits(n) : z \in 0..MaxPad, n \in Numbers }
Separators2 == { <<>>, <<"_">>, <<"-">>, <<" ">> }
SuffixLetters == { <<"a">>, <<"A">>, <<"b">>, <<"B">>,
                   <<"b","o","n","u","s">>, <<"S","u","p","l">>,
                   <<"E","S","P","e","c","i","a","l">>,
                   <<"i","n","t","r","o">>, <<"A","B">> }

\* raw identifiers as the scrapers leave them: with and without a suffix, and
\* some that are no episode identifier at all
RawIds ==
    { p \o s1 \o n : p \in EpPrefixes, s1 \in Separators1, n \in NumberStrings }
    \cup { p \o s1 \o n \o s2 \o x : p \in EpPrefixes, s1 \in Separators1,
               n \in NumberStrings, s2 \in Separators2, x \in SuffixLetters }
    \cup { <<"g","a","r","b","a","g","e">>, <<" ","g","a","r"," ","b","a","g","e">>,
           <<"E","p">>, <<"1","0","5">>, <<"E","p","_","7">>, <<>> }

NzLog(level) == nz_log' = Append(nz_log, level)
NzPrint(message) == nz_console' = Append(nz_console, message)

\* lines 239-242: load_json_data, and "No data available" for an empty list
NzLoad ==
    /\ nz_pc = "load"
    /\ data' = src_file
    /\ IF src_file = <<>>
       THEN nz_pc' = "done" /\ NzPrint("No data available")
       ELSE nz_pc' = "backup" /\ UNCHANGED nz_console
    /\ UNCHANGED <<src_file, bak_file, nz_idx, changes_made, nz_log, NotNz>>

\* lines 247-258: the backup is written only when none exists; a failure
\* aborts the pass for this source
NzBackup ==
    /\ nz_pc = "backup"
    /\ \/ /\ bak_file.exists
          /\ nz_pc' = "loop"
          /\ UNCHANGED <<bak_file, nz_log, nz_console>>
       \/ /\ ~bak_file.exists
          /\ bak_file' = [exists |-> TRUE, content |-> src_file]
          /\ NzLog("info")
          /\ nz_pc' = "loop"
          /\ UNCHANGED nz_console
       \/ /\ ~bak_file.exists
          /\ NzLog("error")
          /\ NzPrint("Operation aborted")
          /\ nz_pc' = "done"
          /\ UNCHANGED bak_file
    /\ UNCHANGED <<src_file, data, nz_idx, changes_made, NotNz>>

\* lines 261-268: one iteration of the loop over the items
NzItem ==
    /\ nz_pc = "loop"
    /\ nz_idx < Len(data)
    /\ LET original_id == data[nz_idx + 1]
           normalized_id == normalize_episode_id(original_id)
       IN IF original_id # <<>> /\ original_id # normalized_id
          THEN /\ data' = [data EXCEPT ![nz_idx + 1] = normalized_id]
               /\ changes_made' = changes_made + 1
          ELSE UNCHANGED <<data, changes_made>>
    /\ nz_idx' = nz_idx + 1
    /\ UNCHANGED <<nz_pc, src_file, bak_file, nz_log, nz_console, NotNz>>

\* lines 270-277 with save_json_data (lines 95-102)
NzSave ==
    /\ nz_pc = "loop"
    /\ nz_idx = Len(data)
    /\ \/ /\ changes_made > 0
          /\ src_file' = data
          /\ NzLog("info")
          /\ NzPrint("Successfully normalized")
       \/ /\ changes_made > 0
          /\ NzLog("error")
          /\ NzPrint("Failed to save changes")
          /\ UNCHANGED src_file
       \/ /\ changes_made = 0
          /\ NzPrint("No changes needed")
          /\ UNCHANGED <<src_file, nz_log>>
    /\ nz_pc' = "done"
    /\ UNCHANGED <<bak_file, data, nz_idx, changes_made, NotNz>>

\* the operator runs the pass again: a new process over the same files
NzAgain ==
    /\ nz_pc = "done"
    /\ Len(nz_console) < MaxPasses
    /\ nz_pc' = "load"
    /\ data' = <<>>
    /\ nz_idx' = 0
    /\ changes_made' = 0
    /\ nz_log' = <<>>
    /\ UNCHANGED <<src_file, bak_file, nz_console, NotNz>>

NzInit ==
    /\ nz_pc = "load"
    /\ src_file \in { <<r>> : r \in RawIds } \cup { <<>> }
    /\ bak_file \in { [exists |-> FALSE, content |-> <<>>],
                      [exists |-> TRUE, content |-> <<>>] }
    /\ data = <<>>
    /\ nz_idx = 0
    /\ changes_made = 0
    /\ nz_log = <<>>
    /\ nz_console = <<>>

MgIdle ==
    /\ pc = "idle"
    /\ files = <<>>
    /\ audiofeed_data = <<>>
    /\ cbinfo_data = <<>>
    /\ web_data = <<>>
    /\ grouped_parts = <<>>
    /\ master_data = <<>>
    /\ output_file = [opened |-> FALSE, content |-> <<>>]
    /\ exit_code = -1
    /\ warnings = 0
    /\ prompts = <<>>

NzNext == NzLoad \/ NzBackup \/ NzItem \/ NzSave \/ NzAgain

InitNorm == NzInit /\ MgIdle /\ LkIdle /\ RsIdle /\ RgIdle /\ CpIdle /\ RfIdle

SpecNorm == InitNorm /\ [][NzNext]_vars

----------------------------------------------------------------------------
(* consolidate_episode_data.py: grouping *)

Only == <<"O", "n", "l", "y">>
PART_TYPES == << <<"A">>, <<"B">>, <<"S", "u", "p", "l">>, Only >>

\* re.search(r'Ep(\d+)(?:_([A-Za-z]+))?', ep_id), case-sensitive
MergeMatchAt(s, i) ==
    i + 2 <= Len(s) /\ s[i] = "E" /\ s[i + 1] = "p" /\ s[i + 2] \in Digit

MergeSearch(s) ==
    IF \E i \in 1..Len(s) : MergeMatchAt(s, i)
    THEN LET i  == CHOOSE k \in 1..Len(s) :
                       MergeMatchAt(s, k) /\ \A m \in 1..(k - 1) : ~MergeMatchAt(s, m)
             de == RunEnd(s, i + 2, Digit)
             k  == de + 1
         IN [found |-> TRUE, num |-> SubSeq(s, i + 2, de),
             part |-> IF k + 1 <= Len(s) /\ s[k] = "_" /\ s[k + 1] \in Letter
                      THEN SubSeq(s, k + 1, RunEnd(s, k + 1, Letter))
                      ELSE <<>>]
    ELSE [found |-> FALSE, num |-> <<>>, part |-> <<>>]

\* index of the episode keyed ep_number in the dict (0 when absent); the dict
\* is a sequence in insertion order
EpisodeIndex(episodes, ep_number) ==
    IF \E i \in 1..Len(episodes) : episodes[i].Episode_number = ep_number
    THEN CHOOSE i \in 1..Len(episodes) : episodes[i].Episode_number = ep_number
    ELSE 0

\* lines 122-132: the part made of an audio entry (the fields of the entry
\* that are only copied are represented by Audio_URL)
entry_clean(entry, ep_id, ep_part) ==
    [Episode_ID |-> ep_id, Part_class |-> ep_part, Audio_URL |-> entry.audio_url,
     Topics |-> <<>>, Contertulios |-> <<>>]

\* lines 107-119: the episode group after the entry's part class is seen
NewEpisode(ep_number, ep_part) ==
    [Episode_number |-> ep_number,
     Episode_class |-> IF ep_part = Only THEN "Single" ELSE "Dual",
     Title |-> "", Image_url |-> "", web_link |-> "", ref_links |-> <<>>,
     Parts |-> <<>>]

\* lines 134-141: title and image kept if already set, and the part appended
AddPart_Collapsing(episode, entry, part) ==
    [episode EXCEPT
        !.Title = IF @ = "" /\ "title" \in DOMAIN entry /\ entry.title # ""
                  THEN entry.title ELSE @,
        !.Image_url = IF @ = "" /\ "image_url" \in DOMAIN entry /\ entry.image_url # ""
                      THEN entry.image_url ELSE @,
        !.Parts = IF \E k \in 1..Len(@) : @[k].Part_class = part.Part_class
                  THEN [k \in 1..Len(@) |->
                            IF @[k].Part_class = part.Part_class THEN part ELSE @[k]]
                  ELSE Append(@, part)]
AddPart(episode, entry, part) ==
    [episode EXCEPT
        !.Title = IF @ = "" /\ "title" \in DOMAIN entry /\ entry.title # ""
                  THEN entry.title ELSE @,
        !.Image_url = IF @ = "" /\ "image_url" \in DOMAIN entry /\ entry.image_url # ""
                      THEN entry.image_url ELSE @,
        !.Parts = Append(@, part)]

\* lines 89-141: one iteration of the loop, on the pair (episodes, warnings)
GroupEntry(st, entry) ==
    IF "episode_id" \notin DOMAIN entry
    THEN [st EXCEPT !.warnings = @ + 1]
    ELSE LET ep_id == entry.episode_id
             match == MergeSearch(ep_id)
         IN IF ~match.found
            THEN [st EXCEPT !.warnings = @ + 1]
            ELSE LET ep_number == Zfill3(match.num)
                     ep_part == IF match.part # <<>> THEN match.part ELSE Only
                     at == EpisodeIndex(st.episodes, ep_number)
                     eps == IF at = 0
                            THEN Append(st.episodes, NewEpisode(ep_number, ep_part))
                            ELSE IF st.episodes[at].Episode_class = "Single"
                                    /\ ep_part # Only
                                 THEN [st.episodes EXCEPT ![at].Episode_class = "Dual"]
                                 ELSE st.episodes
                     j == IF at = 0 THEN Len(eps) ELSE at
                 IN [st EXCEPT !.episodes =
                        [eps EXCEPT ![j] = AddPart(eps[j], entry,
                                                   entry_clean(entry, ep_id, ep_part))]]

RECURSIVE GroupFrom(_, _, _)
GroupFrom(st, feed, i) ==
    IF i > Len(feed) THEN st ELSE GroupFrom(GroupEntry(st, feed[i]), feed, i + 1)

group_audiofeed_by_episode(feed) ==
    GroupFrom([episodes |-> <<>>, warnings |-> 0], feed, 1)

----------------------------------------------------------------------------
(* consolidate_episode_data.py: enrichment, conflicts, ordering *)

\* str.lstrip('0')
RECURSIVE lstrip0(_)
lstrip0(s) == IF s # <<>> /\ Head(s) = "0" THEN lstrip0(Tail(s)) ELSE s

\* lines 178-192
enrich_episode_with_webdata(episode_id, web) ==
    LET clean_ep_id == <<"E", "p">> \o lstrip0(episode_id)
        hit(i) == StrLower(IF "ep_id" \in DOMAIN web[i] THEN web[i].ep_id ELSE <<>>)
                      = StrLower(clean_ep_id)
    IN IF \E i \in 1..Len(web) : hit(i)
       THEN LET i == CHOOSE k \in 1..Len(web) : hit(k) /\ \A m \in 1..(k - 1) : ~hit(m)
            IN [web_link |-> web[i].ep_web_link, ref_links |-> web[i].ep_links]
       ELSE [web_link |-> "", ref_links |-> <<>>]

\* lines 195-206
enrich_episode_with_cbinfo(episode_part_id, cbinfo) ==
    LET hit(i) == cbinfo[i].episode_id = episode_part_id
    IN IF \E i \in 1..Len(cbinfo) : hit(i)
       THEN LET i == CHOOSE k \in 1..Len(cbinfo) : hit(k) /\ \A m \in 1..(k - 1) : ~hit(m)
            IN [topics |-> cbinfo[i].topics, contertulios |-> cbinfo[i].contertulios]
       ELSE [topics |-> <<>>, contertulios |-> <<>>]

\* lines 230-233: the distinct non-empty values of a field of the parts, in
\* order of first appearance; a part that has no such key contributes nothing
RECURSIVE Options(_, _, _)
Options(parts, field, acc) ==
    IF parts = <<>> THEN acc
    ELSE LET part == Head(parts)
             take == /\ field \in DOMAIN part
                     /\ part[field] # ""
                     /\ \A k \in 1..Len(acc) : acc[k] # part[field]
         IN Options(Tail(parts), field, IF take THEN Append(acc, part[field]) ELSE acc)

\* int(choice) raises ValueError unless the answer is a string of digits
IsNumeral(a) == a # <<>> /\ \A k \in 1..Len(a) : a[k] \in Digit

\* lines 151-161 and 163-173: one prompt; Enter gives the default "1"
PickOption(options, answer) ==
    LET choice == IF answer = <<>> THEN <<"1">> ELSE answer
        idx == IF IsNumeral(choice) THEN ParseInt(choice) - 1 ELSE -1
    IN IF IsNumeral(choice) /\ 0 <= idx /\ idx < Len(options)
       THEN options[idx + 1] ELSE options[1]

\* lines 146-175; options[0] of an empty list is an IndexError
resolve_conflicts(title_options, image_options, title_answer, image_answer) ==
    IF title_options = <<>> \/ image_options = <<>>
    THEN [raised |-> TRUE, title |-> "", image |-> "", asked |-> <<>>]
    ELSE [raised |-> FALSE,
          title |-> IF Len(title_options) > 1
                    THEN PickOption(title_options, title_answer) ELSE title_options[1],
          image |-> IF Len(image_options) > 1
                    THEN PickOption(image_options, image_answer) ELSE image_options[1],
          asked |-> (IF Len(title_options) > 1
                     THEN << [field |-> "Title", options |-> title_options,
                              answer |-> title_answer] >> ELSE <<>>)
                    \o (IF Len(image_options) > 1
                        THEN << [field |-> "Image_url", options |-> image_options,
                                 answer |-> image_answer] >> ELSE <<>>)]

UnknownPartKey == 999

\* the sort key of line 242 (list.index is 0-based)
PartKey_UnknownFirst(part) ==
    IF \E i \in 1..Len(PART_TYPES) : PART_TYPES[i] = part.Part_class
    THEN (CHOOSE i \in 1..Len(PART_TYPES) : PART_TYPES[i] = part.Part_class) - 1
    ELSE -1
PartKey(part) ==
    IF \E i \in 1..Len(PART_TYPES) : PART_TYPES[i] = part.Part_class
    THEN (CHOOSE i \in 1..Len(PART_TYPES) : PART_TYPES[i] = part.Part_class) - 1
    ELSE UnknownPartKey

EpisodeKey(e) == ParseInt(e.Episode_number)

\* list.sort(key=...) on a list of [key, val] pairs: stable; x goes after the
\* last element whose key is <= its own
RECURSIVE InsertByKey(_, _)
InsertByKey(sorted, x) ==
    IF sorted = <<>> THEN <<x>>
    ELSE IF sorted[Len(sorted)].key <= x.key THEN Append(sorted, x)
    ELSE Append(InsertByKey(SubSeq(sorted, 1, Len(sorted) - 1), x),
                sorted[Len(sorted)])

RECURSIVE SortByKey(_)
SortByKey(s) ==
    IF s = <<>> THEN <<>>
    ELSE InsertByKey(SortByKey(SubSeq(s, 1, Len(s) - 1)), s[Len(s)])

\* line 242
SortParts(parts) ==
    LET sorted == SortByKey([k \in 1..Len(parts) |->
                                [key |-> PartKey(parts[k]), val |-> parts[k]]])
    IN [k \in 1..Len(parts) |-> sorted[k].val]

\* line 264
SortEpisodes(eps) ==
    LET sorted == SortByKey([k \in 1..Len(eps) |->
                                [key |-> EpisodeKey(eps[k]), val |-> eps[k]]])
    IN [k \in 1..Len(eps) |-> sorted[k].val]

\* lines 218-227: what the loop over the parts leaves in a part
EnrichPart(part, cbinfo) ==
    LET cb == enrich_episode_with_cbinfo(part.Episode_ID, cbinfo)
    IN [part EXCEPT !.Topics = cb.topics, !.Contertulios = cb.contertulios]

\* lines 218-233: the loop over the parts of one episode
EnrichEpisode(episode, web, cbinfo) ==
    LET w == enrich_episode_with_webdata(episode.Episode_number, web)
        parts == [k \in 1..Len(episode.Parts) |-> EnrichPart(episode.Parts[k], cbinfo)]
    IN [episode |-> [episode EXCEPT !.web_link = w.web_link,
                                    !.ref_links = w.ref_links,
                                    !.Parts = parts],
        title_options |-> Options(parts, "Title", <<>>),
        image_options |-> Options(parts, "Image_url", <<>>)]

\* lines 241-261: the parts sorted, and copied field by field
FinishEpisode(episode) == [episode EXCEPT !.Parts = SortParts(@)]

----------------------------------------------------------------------------
(* consolidate_episode_data.py: main *)

MaxAudio == 3        \* entries of the audio feed document

Ep050 == <<"E", "p", "0", "5", "0">>

\* entries of audiofeed_index.json, before their audio_url is set
AudioEntries ==
    { [episode_id |-> Ep050 \o <<"_", "A">>, title |-> "T1", image_url |-> "I1"],
      [episode_id |-> Ep050 \o <<"_", "B">>, title |-> "T2", image_url |-> "I2"],
      [episode_id |-> Ep050, title |-> "T1", image_url |-> ""],
      [episode_id |-> Ep050 \o <<"_", "S", "u", "p", "l">>, title |-> "", image_url |-> ""],
      [episode_id |-> <<"E", "p", "5", "0", "_", "x">>, title |-> "T2", image_url |-> ""],
      [episode_id |-> <<"E", "p", "0", "0", "5", "0", "_", "A">>, title |-> "",
       image_url |-> ""],
      [episode_id |-> <<"E", "p", "1", "0", "5", "_", "A">>, title |-> "T1",
       image_url |-> "I1"],
      [episode_id |-> <<"e", "p", "0", "5", "0">>, title |-> "T2", image_url |-> ""],
      [title |-> "T1", image_url |-> "I1"] }

\* every entry of the feed has its own audio url: here, its position
WithAudioUrl(e, i) ==
    [k \in DOMAIN e \cup {"audio_url"} |-> IF k = "audio_url" THEN i ELSE e[k]]

AudioDocs ==
    UNION { { [i \in 1..n |-> WithAudioUrl(f[i], i)] : f \in [1..n -> AudioEntries] }
            : n \in 0..MaxAudio }

WebEntry(id, link) == [ep_id |-> id, ep_web_link |-> link, ep_links |-> <<link>>]
W050 == WebEntry(Ep050, "L050")
W50  == WebEntry(<<"E", "p", "5", "0">>, "L50")
W105 == WebEntry(<<"E", "p", "1", "0", "5">>, "L105")
w105 == WebEntry(<<"e", "p", "1", "0", "5">>, "l105")

\* contents of web_parse.json
WebDocs == { <<>>, <<W050>>, <<W50, W050>>, <<w105, W105, W050>> }

\* content of cbinfo_index.json
CbinfoDoc ==
    << [episode_id |-> Ep050 \o <<"_", "A">>, topics |-> <<"topic">>,
        contertulios |-> <<"guest">>] >>

FileStatus == {"ok", "missing", "malformed"}

\* what the decision-maker types at a prompt: Enter, a number, anything else
PromptAnswers == { <<>>, <<"2">>, <<"9">>, <<"x">> }

\* lines 75-82: the document, or sys.exit(1) on any failure to read or parse
load_json_file_Lenient(file) ==
    IF file.status = "ok"
    THEN [exited |-> FALSE, value |-> file.content]
    ELSE [exited |-> FALSE, value |-> <<>>]
load_json_file(file) ==
    IF file.status = "ok"
    THEN [exited |-> FALSE, value |-> file.content]
    ELSE [exited |-> TRUE, value |-> <<>>]

\* lines 370-372; SystemExit is not an Exception, so line 373 does not catch it
LoadAudio ==
    /\ pc = "load_audio"
    /\ LET r == load_json_file(files.audio)
       IN IF r.exited
          THEN pc' = "exited" /\ exit_code' = 1 /\ UNCHANGED audiofeed_data
          ELSE pc' = "load_cbinfo" /\ audiofeed_data' = r.value /\ UNCHANGED exit_code
    /\ UNCHANGED <<files, cbinfo_data, web_data, grouped_parts, master_data,
                   output_file, warnings, prompts, NotMg>>

LoadCbinfo ==
    /\ pc = "load_cbinfo"
    /\ LET r == load_json_file(files.cbinfo)
       IN IF r.exited
          THEN pc' = "exited" /\ exit_code' = 1 /\ UNCHANGED cbinfo_data
          ELSE pc' = "load_web" /\ cbinfo_data' = r.value /\ UNCHANGED exit_code
    /\ UNCHANGED <<files, audiofeed_data, web_data, grouped_parts, master_data,
                   output_file, warnings, prompts, NotMg>>

LoadWeb ==
    /\ pc = "load_web"
    /\ LET r == load_json_file(files.web)
       IN IF r.exited
          THEN pc' = "exited" /\ exit_code' = 1 /\ UNCHANGED web_data
          ELSE pc' = "group" /\ web_data' = r.value /\ UNCHANGED exit_code
    /\ UNCHANGED <<files, audiofeed_data, cbinfo_data, grouped_parts, master_data,
                   output_file, warnings, prompts, NotMg>>

\* line 379
Group ==
    /\ pc = "group"
    /\ LET st == group_audiofeed_by_episode(audiofeed_data)
       IN grouped_parts' = st.episodes /\ warnings' = st.warnings
    /\ pc' = "build"
    /\ UNCHANGED <<files, audiofeed_data, cbinfo_data, web_data, master_data,
                   output_file, exit_code, prompts, NotMg>>

\* line 383, build_episode_structure: one iteration of the loop over the
\* episodes; the last one is followed by the sort of line 264 and the return
BuildEpisode ==
    /\ pc = "build"
    /\ Len(master_data) < Len(grouped_parts)
    /\ LET e == EnrichEpisode(grouped_parts[Len(master_data) + 1], web_data, cbinfo_data)
           last == Len(master_data) + 1 = Len(grouped_parts)
           Built(episode) ==
               LET built == Append(master_data, FinishEpisode(episode))
               IN /\ master_data' = IF last THEN SortEpisodes(built) ELSE built
                  /\ pc' = IF last THEN "save" ELSE "build"
                  /\ UNCHANGED exit_code
       IN IF Len(e.title_options) > 1 \/ Len(e.image_options) > 1
          THEN \E title_answer \in PromptAnswers, image_answer \in PromptAnswers :
                 LET r == resolve_conflicts(e.title_options, e.image_options,
                                            title_answer, image_answer)
                 IN IF r.raised
                    THEN /\ pc' = "crashed"
                         /\ exit_code' = 1
                         /\ UNCHANGED <<master_data, prompts>>
                    ELSE /\ Built([e.episode EXCEPT !.Title = r.title,
                                                    !.Image_url = r.image])
                         /\ prompts' = prompts \o r.asked
          ELSE Built(e.episode) /\ UNCHANGED prompts
    /\ UNCHANGED <<files, audiofeed_data, cbinfo_data, web_data, grouped_parts,
                   output_file, warnings, NotMg>>

\* build_episode_structure when no episode was grouped
BuildNothing ==
    /\ pc = "build"
    /\ grouped_parts = <<>>
    /\ pc' = "save"
    /\ UNCHANGED <<files, audiofeed_data, cbinfo_data, web_data, grouped_parts,
                   master_data, output_file, exit_code, warnings, prompts, NotMg>>

\* line 387, save_master_data (lines 268-275): a failure is logged, not raised
Save ==
    /\ pc = "save"
    /\ \/ output_file' = [opened |-> TRUE, content |-> master_data]
       \/ UNCHANGED output_file
    /\ pc' = "report"
    /\ UNCHANGED <<files, audiofeed_data, cbinfo_data, web_data, grouped_parts,
                   master_data, exit_code, warnings, prompts, NotMg>>

\* line 391, report_completion_rate: divides by the number of episodes
Report ==
    /\ pc = "report"
    /\ IF master_data = <<>>
       THEN pc' = "crashed" /\ exit_code' = 1
       ELSE pc' = "done" /\ exit_code' = 0
    /\ UNCHANGED <<files, audiofeed_data, cbinfo_data, web_data, grouped_parts,
                   master_data, output_file, warnings, prompts, NotMg>>

OkFile(content) == [status |-> "ok", content |-> content]
BadFile(status) == [status |-> status, content |-> <<>>]

\* the three documents: all readable, with every content; or some unreadable,
\* the readable ones holding one fixed content
MgInit ==
    /\ pc = "load_audio"
    /\ \/ \E a \in AudioDocs, w \in WebDocs :
              files = [audio |-> OkFile(a), cbinfo |-> OkFile(CbinfoDoc), web |-> OkFile(w)]
       \/ \E sa \in FileStatus, sc \in FileStatus, sw \in FileStatus :
              /\ {sa, sc, sw} # {"ok"}
              /\ files = [audio |-> IF sa = "ok" THEN OkFile(<<>>) ELSE BadFile(sa),
                          cbinfo |-> IF sc = "ok" THEN OkFile(CbinfoDoc) ELSE BadFile(sc),
                          web |-> IF sw = "ok" THEN OkFile(<<W050>>) ELSE BadFile(sw)]
    /\ audiofeed_data = <<>>
    /\ cbinfo_data = <<>>
    /\ web_data = <<>>
    /\ grouped_parts = <<>>
    /\ master_data = <<>>
    /\ output_file = [opened |-> FALSE, content |-> <<>>]
    /\ exit_code = -1
    /\ warnings = 0
    /\ prompts = <<>>

NzIdle ==
    /\ nz_pc = "idle"
    /\ src_file = <<>>
    /\ bak_file = [exists |-> FALSE, content |-> <<>>]
    /\ data = <<>>
    /\ nz_idx = 0
    /\ changes_made = 0
    /\ nz_log = <<>>
    /\ nz_console = <<>>

MgNext ==
    LoadAudio \/ LoadCbinfo \/ LoadWeb \/ Group \/ BuildEpisode \/ BuildNothing
        \/ Save \/ Report

InitMerge == MgInit /\ NzIdle /\ LkIdle /\ RsIdle /\ RgIdle /\ CpIdle /\ RfIdle

SpecMerge == InitMerge /\ [][MgNext]_vars

----------------------------------------------------------------------------
(* clean_links.py *)

\* A link is a URL: its network location and the rest of it.  The document
\* is the list of the episodes' metas in the order of data.items(); an
\* episode's key is its position.
urlparse_netloc(link) == link.netloc

\* meta.get('ep_links', [])
ep_links(meta) == IF "ep_links" \in DOMAIN meta THEN meta.ep_links ELSE <<>>

\* meta['ep_links'] = links
set_ep_links(meta, links) ==
    [k \in DOMAIN meta \cup {"ep_links"} |->
        IF k = "ep_links" THEN links ELSE meta[k]]

\* the links of the document whose lowered netloc contains the pattern
matching_links(doc, pattern) ==
    { l \in UNION { {ep_links(doc[i])[j] : j \in 1..Len(ep_links(doc[i]))}
                        : i \in 1..Len(doc) } :
        Contains(StrLower(urlparse_netloc(l)), pattern) }

remove_pattern_links(doc, pattern) ==
    [i \in 1..Len(doc) |->
        set_ep_links(doc[i],
            SelectSeq(ep_links(doc[i]),
                LAMBDA l : ~Contains(StrLower(urlparse_netloc(l)), pattern)))]

\* the keys of {dom: ... for dom in exclusions}: first occurrences, in order
stats_keys(excl) ==
    LET firsts == SelectSeq([i \in 1..Len(excl) |-> i],
                     LAMBDA i : ~\E j \in 1..(i - 1) : excl[j] = excl[i])
    IN  [k \in 1..Len(firsts) |-> excl[firsts[k]]]

\* the entry of one domain after the aggregation loop
domain_entry(doc, dom) ==
    [dom |-> dom,
     links |-> { l \in UNION { {ep_links(doc[i])[j] :
                                    j \in 1..Len(ep_links(doc[i]))}
                                    : i \in 1..Len(doc) } :
                    StrLower(urlparse_netloc(l)) = dom },
     eps |-> { i \in 1..Len(doc) :
                 \E j \in 1..Len(ep_links(doc[i])) :
                     StrLower(urlparse_netloc(ep_links(doc[i])[j])) = dom }]

remove_domain_links(doc, dom) ==
    [i \in 1..Len(doc) |->
        set_ep_links(doc[i],
            SelectSeq(ep_links(doc[i]),
                LAMBDA l : StrLower(urlparse_netloc(l)) # dom))]

MaxEpisodes == 4

HostA == <<"a", ".", "e", "s">>
HostYt == <<"y", "t", ".", "b", "e">>
HostYtMixed == <<"Y", "t", ".", "b", "e">>
HostYtUpper == <<"Y", "T", ".", "B", "E">>
HostX == <<"x", ".", "o", "r", "g">>
Promo == [netloc |-> HostA, rest |-> "/promo"]
Yt1 == [netloc |-> HostYtMixed, rest |-> "/1"]
Yt2 == [netloc |-> HostYt, rest |-> "/2"]
Paper == [netloc |-> HostX, rest |-> "/paper"]
Metas == { [ep_title |-> "t"],
           [ep_links |-> <<Promo>>],
           [ep_links |-> <<Yt1, Promo, Paper>>],
           [ep_links |-> <<Paper, Yt2>>] }
WebParseDocs == [1..MaxEpisodes -> Metas]
ExclusionLists == { <<HostYt>>, <<HostYtUpper>>, <<HostA, HostYt>>,
                    <<HostYt, HostYt>> }
CheckDomains == { <<>>, <<"Y", "T">> }

\* lines 54-69: the command line is parsed, with -v and -c as its only
\* options, so that any other option ends the run with argparse's status 2;
\* then the two documents are loaded
LkLoad ==
    /\ lk_pc = "start"
    /\ IF lk_unattended
          THEN /\ lk_pc' = "exited"
               /\ lk_exit' = 2
               /\ UNCHANGED <<lk_data, exclusions>>
       ELSE IF ~web_parse_file.exists
          THEN /\ lk_pc' = "exited"
               /\ lk_exit' = 1
               /\ UNCHANGED <<lk_data, exclusions>>
          ELSE /\ lk_pc' = "check"
               /\ lk_data' = web_parse_file.content
               /\ exclusions' = IF exclusion_file.exists
                                   THEN exclusion_file.content ELSE <<>>
               /\ UNCHANGED lk_exit
    /\ UNCHANGED <<lk_args, lk_unattended, web_parse_keyed,
                   web_parse_file, exclusion_file,
                   domain_stats, lk_dom, lk_confirms, NotLk>>

\* lines 72-89: the optional search for one domain pattern; data.items() of
\* line 75 raises AttributeError when the document is a list
LkCheckDomain ==
    /\ lk_pc = "check"
    /\ lk_pc' = IF lk_args # <<>> /\ ~web_parse_keyed THEN "raised"
                                                      ELSE "aggregate"
    /\ IF lk_args # <<>> /\ ~web_parse_keyed
          THEN UNCHANGED <<lk_data, lk_confirms>>
       ELSE IF lk_args # <<>> /\ matching_links(lk_data, StrLower(lk_args)) # {}
          THEN \E answer \in BOOLEAN :
                  /\ lk_confirms' = Append(lk_confirms,
                         [kind |-> "pattern", subject |-> StrLower(lk_args),
                          answer |-> answer])
                  /\ lk_data' = IF answer
                                    THEN remove_pattern_links(lk_data,
                                                              StrLower(lk_args))
                                    ELSE lk_data
          ELSE UNCHANGED <<lk_data, lk_confirms>>
    /\ UNCHANGED <<lk_args, lk_unattended, web_parse_keyed,
                   web_parse_file, exclusion_file, exclusions,
                   domain_stats, lk_dom, lk_exit, NotLk>>

\* lines 92-100: the statistics of the exclusion domains; data.items() of
\* line 95 raises AttributeError when the document is a list
LkAggregate ==
    /\ lk_pc = "aggregate"
    /\ IF exclusions = <<>>
          THEN lk_pc' = "save" /\ UNCHANGED domain_stats
       ELSE IF ~web_parse_keyed
          THEN lk_pc' = "raised" /\ UNCHANGED domain_stats
          ELSE /\ lk_pc' = "domains"
               /\ domain_stats' =
                      [k \in 1..Len(stats_keys(exclusions)) |->
                          domain_entry(lk_data, stats_keys(exclusions)[k])]
    /\ UNCHANGED <<lk_args, lk_unattended, web_parse_keyed,
                   web_parse_file, exclusion_file, lk_data, exclusions,
                   lk_dom, lk_confirms, lk_exit, NotLk>>

\* lines 101-112: one exclusion domain is summarized and put to the user
LkDomain ==
    /\ lk_pc = "domains"
    /\ lk_dom < Len(domain_stats)
    /\ LET stats == domain_stats[lk_dom + 1] IN
       \E answer \in BOOLEAN :
          /\ lk_confirms' = Append(lk_confirms,
                 [kind |-> "domain", subject |-> stats.dom, answer |-> answer,
                  total_links |-> Cardinality(stats.links),
                  total_eps |-> Cardinality(stats.eps)])
          /\ lk_data' = IF answer THEN remove_domain_links(lk_data, stats.dom)
                                  ELSE lk_data
    /\ lk_dom' = lk_dom + 1
    /\ lk_pc' = IF lk_dom + 1 = Len(domain_stats) THEN "save" ELSE "domains"
    /\ UNCHANGED <<lk_args, lk_unattended, web_parse_keyed,
                   web_parse_file, exclusion_file, exclusions,
                   domain_stats, lk_exit, NotLk>>

\* line 115: the cleaned document replaces web_parse.json
LkSave ==
    /\ lk_pc = "save"
    /\ web_parse_file' = [exists |-> TRUE, content |-> lk_data]
    /\ lk_pc' = "done"
    /\ lk_exit' = 0
    /\ UNCHANGED <<lk_args, lk_unattended, web_parse_keyed,
                   exclusion_file, lk_data, exclusions, domain_stats,
                   lk_dom, lk_confirms, NotLk>>

LkInit ==
    /\ lk_pc = "start"
    /\ lk_args \in CheckDomains
    /\ lk_unattended \in BOOLEAN
    /\ web_parse_keyed \in BOOLEAN
    /\ web_parse_file \in { [exists |-> FALSE, content |-> <<>>] }
                          \cup { [exists |-> TRUE, content |-> d] :
                                    d \in WebParseDocs }
    /\ exclusion_file \in { [exists |-> FALSE, content |-> <<>>] }
                          \cup { [exists |-> TRUE, content |-> e] :
                                    e \in ExclusionLists }
    /\ lk_data = <<>>
    /\ exclusions = <<>>
    /\ domain_stats = <<>>
    /\ lk_dom = 0
    /\ lk_confirms = <<>>
    /\ lk_exit = -1

LkNext == LkLoad \/ LkCheckDomain \/ LkAggregate \/ LkDomain \/ LkSave

InitLinks == LkInit /\ NzIdle /\ MgIdle /\ RsIdle /\ RgIdle /\ CpIdle /\ RfIdle

SpecLinks == InitLinks /\ [][LkNext]_vars

----------------------------------------------------------------------------
(* normalize_contertulios.py: find_best_normalized_match *)

DEFAULT_SIMILARITY_THRESHOLD == 70

Max2(a, b) == IF a >= b THEN a ELSE b

\* One row of the longest-common-subsequence table of rapidfuzz's Indel
\* distance: row[k + 1] is the entry of column k; acc holds the columns
\* already filled, prev the row of the previous character.
RECURSIVE lcs_row(_, _, _, _)
lcs_row(c, b, prev, acc) ==
    IF Len(acc) = Len(b) + 1 THEN acc
    ELSE LET j == Len(acc) IN
         lcs_row(c, b, prev,
                 Append(acc, IF c = b[j] THEN prev[j] + 1
                                         ELSE Max2(prev[j + 1], acc[j])))

RECURSIVE lcs_rows(_, _, _, _)
lcs_rows(a, b, i, prev) ==
    IF i > Len(a) THEN prev[Len(b) + 1]
    ELSE lcs_rows(a, b, i + 1, lcs_row(a[i], b, prev, <<0>>))

lcs_length(a, b) == lcs_rows(a, b, 1, [k \in 1..(Len(b) + 1) |-> 0])

\* rapidfuzz.fuzz.ratio(a, b) = 100 * 2 * lcs / (len(a) + len(b)), and 100
\* for two empty strings.  The score is kept as the fraction num / den.
fuzz_ratio(a, b) ==
    IF Len(a) + Len(b) = 0 THEN [num |-> 100, den |-> 1]
    ELSE [num |-> 200 * lcs_length(a, b), den |-> Len(a) + Len(b)]

ScoreGreater(s, t) == s.num * t.den > t.num * s.den
ScoreAtLeast(s, threshold) == s.num >= threshold * s.den

\* the test of lines 173 and 180
improves_LastWins(score, best_score, threshold) ==
    ~ScoreGreater(best_score, score) /\ ScoreAtLeast(score, threshold)

improves(score, best_score, threshold) ==
    ScoreGreater(score, best_score) /\ ScoreAtLeast(score, threshold)

\* The strings the fuzzy loop compares the name with, in the order it meets
\* them: each canonical name, then its aliases.
RECURSIVE compared_names(_, _)
compared_names(registry, i) ==
    IF i > Len(registry) THEN <<>>
    ELSE <<[owner |-> registry[i].norm, text |-> registry[i].norm]>>
         \o [k \in 1..Len(registry[i].aliases) |->
                [owner |-> registry[i].norm, text |-> registry[i].aliases[k]]]
         \o compared_names(registry, i + 1)

RECURSIVE fuzzy_loop(_, _, _, _, _, _)
fuzzy_loop(name, compared, k, threshold, best_score, best_match) ==
    IF k > Len(compared) THEN best_match
    ELSE LET score == fuzz_ratio(StrLower(name), StrLower(compared[k].text)) IN
         IF improves(score, best_score, threshold)
            THEN fuzzy_loop(name, compared, k + 1, threshold, score,
                            compared[k].owner)
            ELSE fuzzy_loop(name, compared, k + 1, threshold, best_score,
                            best_match)

\* normalized_names is a dict: the sequence of its items, each a canonical
\* name (norm) and the list of its aliases.  "" is <<>>.
find_best_normalized_match(name, normalized_names, threshold) ==
    IF \E i \in 1..Len(normalized_names) : normalized_names[i].norm = name
       THEN name
    ELSE IF \E i \in 1..Len(normalized_names) :
               \E k \in 1..Len(normalized_names[i].aliases) :
                   normalized_names[i].aliases[k] = name
       THEN LET first == CHOOSE i \in 1..Len(normalized_names) :
                    /\ \E k \in 1..Len(normalized_names[i].aliases) :
                          normalized_names[i].aliases[k] = name
                    /\ \A j \in 1..(i - 1) :
                          \A k \in 1..Len(normalized_names[j].aliases) :
                              normalized_names[j].aliases[k] # name
            IN  normalized_names[first].norm
    ELSE fuzzy_loop(name, compared_names(normalized_names, 1), 1, threshold,
                    [num |-> 0, den |-> 1], <<>>)

MaxCanonical == 2

HectorSocas == <<"H","é","c","t","o","r"," ","S","o","c","a","s">>
HSocas == <<"H","."," ","S","o","c","a","s">>
HectorNoAccent == <<"H","e","c","t","o","r"," ","S","o","c","a","s">>
Pedro == <<"P","e","d","r","o">>
Anna == <<"A","n","n","a">>
Anne == <<"A","n","n","e">>
Ann == <<"A","n","n">>
Ani == <<"A","n","i">>
AnnaUpper == <<"A","N","N","A">>
Luz == <<"L","u","z">>
RegistryEntries == { [norm |-> HectorSocas, aliases |-> <<HSocas>>],
                     [norm |-> Anna, aliases |-> <<Anne, Ani>>],
                     [norm |-> Anne, aliases |-> <<Ani>>],
                     [norm |-> Luz, aliases |-> <<>>] }
\* the dicts of at most MaxCanonical items: the keys of a dict are distinct
Registries ==
    UNION { { r \in [1..n -> RegistryEntries] :
                \A i, j \in 1..n : i # j => r[i].norm # r[j].norm }
            : n \in 0..MaxCanonical }
Candidates == { HectorSocas, HSocas, HectorNoAccent, Pedro, Ann, Anne, Ani,
                AnnaUpper }
Thresholds == { 0, DEFAULT_SIMILARITY_THRESHOLD, 100 }

RsResolve ==
    /\ rs_pc = "call"
    /\ rs_result' = find_best_normalized_match(rs_name, rs_registry,
                                               rs_threshold)
    /\ rs_pc' = "returned"
    /\ UNCHANGED <<rs_name, rs_registry, rs_threshold, NotRs>>

RsInit ==
    /\ rs_pc = "call"
    /\ rs_name \in Candidates
    /\ rs_registry \in Registries
    /\ rs_threshold \in Thresholds
    /\ rs_result = <<>>

RsNext == RsResolve

InitResolve == RsInit /\ NzIdle /\ MgIdle /\ LkIdle /\ RgIdle /\ CpIdle /\ RfIdle

SpecResolve == InitResolve /\ [][RsNext]_vars

----------------------------------------------------------------------------
(* utils_normalization.py: assisted_normalization *)

\* ord(c), for the characters of the names
CodePoint(c) ==
    IF \E i \in 1..26 : UpperAlphabet[i] = c
       THEN 64 + (CHOOSE i \in 1..26 : UpperAlphabet[i] = c)
    ELSE IF \E i \in 1..26 : LowerAlphabet[i] = c
       THEN 96 + (CHOOSE i \in 1..26 : LowerAlphabet[i] = c)
    ELSE IF c \in Digit THEN 48 + DigitValue(c)
    ELSE CASE c = " " -> 32 [] c = "." -> 46 [] c = "é" -> 233

\* a < b for two strings
RECURSIVE StrLess(_, _)
StrLess(a, b) ==
    IF b = <<>> THEN FALSE
    ELSE IF a = <<>> THEN TRUE
    ELSE IF a[1] # b[1] THEN CodePoint(a[1]) < CodePoint(b[1])
    ELSE StrLess(Tail(a), Tail(b))

\* sorted(S) for a set of strings
RECURSIVE sorted(_)
sorted(S) ==
    IF S = {} THEN <<>>
    ELSE LET least == CHOOSE x \in S : \A y \in S \ {x} : StrLess(x, y)
         IN  <<least>> \o sorted(S \ {least})

\* str.strip()
RECURSIVE strip(_)
strip(s) ==
    IF s = <<>> THEN s
    ELSE IF s[1] = " " THEN strip(Tail(s))
    ELSE IF s[Len(s)] = " " THEN strip(SubSeq(s, 1, Len(s) - 1))
    ELSE s

\* A dict is the sequence of its items [key, val] in insertion order.
dict_has(d, key) == \E i \in 1..Len(d) : d[i].key = key
dict_values(d) == { d[i].val : i \in 1..Len(d) }
dict_set(d, key, val) ==
    IF dict_has(d, key)
       THEN [i \in 1..Len(d) |-> IF d[i].key = key
                                    THEN [key |-> key, val |-> val] ELSE d[i]]
       ELSE Append(d, [key |-> key, val |-> val])

\* process.extract(name, choices, scorer=fuzz.ratio, limit=3): the choices
\* by decreasing score, the earlier choice first among equal scores
extract(name, choices, limit) ==
    LET score(i) == fuzz_ratio(name, choices[i])
        rank(i) == Cardinality({ j \in 1..Len(choices) :
                       \/ ScoreGreater(score(j), score(i))
                       \/ (~ScoreGreater(score(i), score(j)) /\ j < i) })
        n == IF Len(choices) < limit THEN Len(choices) ELSE limit
    IN  [r \in 1..n |-> choices[CHOOSE i \in 1..Len(choices) : rank(i) = r - 1]]

\* canonical_names.append(x)
register_Forgotten(names, x) == names

register(names, x) == Append(names, x)

MaxRaw == 3
MaxSessions == 2

Zoe == <<"Z","o","e">>
NamePool == { Ann, Anna, Anne, Luz }
RawLists == { sorted(S) : S \in { T \in SUBSET NamePool : Cardinality(T) <= MaxRaw } }
TypedInputs == { <<>>, <<" ">>, <<"1">>, <<"2">>, <<"3">>, Anne, Zoe }

\* lines 110-129: the document is loaded and the canonical list is built
RgLoad ==
    /\ rg_pc = "start"
    /\ IF ~contertulios_file.exists
          THEN /\ rg_pc' = "returned"
               /\ UNCHANGED <<raw_uniques, normalized, aliases, canonical_names>>
          ELSE LET doc == contertulios_file.content IN
               /\ raw_uniques' = doc.raw_uniques
               /\ normalized' = doc.normalized
               /\ aliases' = doc.aliases
               /\ IF doc.normalized.type = "list"
                     \* a list has no values(): AttributeError at line 127
                     THEN rg_pc' = "crashed" /\ UNCHANGED canonical_names
                     ELSE /\ canonical_names' =
                                sorted(dict_values(doc.normalized.items)
                                       \cup { doc.raw_uniques[i] :
                                                i \in 1..Len(doc.raw_uniques) })
                          /\ rg_pc' = IF doc.raw_uniques = <<>> THEN "save"
                                                                ELSE "loop"
    /\ UNCHANGED <<rg_session, contertulios_file, rg_idx, rg_asked, NotRg>>

\* lines 131-175: one name of raw_uniques
RgReview ==
    /\ rg_pc = "loop"
    /\ rg_idx < Len(raw_uniques)
    /\ LET name == raw_uniques[rg_idx + 1]
           choices == SelectSeq(canonical_names, LAMBDA n : n # name)
           matches == extract(name, choices, 3)
           Assign(x) ==
               /\ aliases' = dict_set(aliases, name, x)
               /\ normalized' = [normalized EXCEPT
                                    !.items = dict_set(@, name, x)]
               /\ canonical_names' = register(canonical_names, x)
       IN
       IF dict_has(aliases, name) \/ name \in dict_values(normalized.items)
          THEN UNCHANGED <<aliases, normalized, canonical_names, rg_asked>>
       ELSE IF choices = <<>>
          THEN Assign(name) /\ UNCHANGED rg_asked
       ELSE \E typed \in TypedInputs :
               LET user_input == strip(typed) IN
               /\ rg_asked' = Append(rg_asked,
                      [name |-> name, matches |-> matches,
                       user_input |-> user_input])
               /\ IF user_input = <<>>
                     THEN Assign(name)
                  ELSE IF user_input \in { <<"1">>, <<"2">>, <<"3">> }
                     THEN IF ParseInt(user_input) - 1 < Len(matches)
                             THEN Assign(matches[ParseInt(user_input)])
                             ELSE UNCHANGED <<aliases, normalized,
                                              canonical_names>>
                  ELSE Assign(user_input)
    /\ rg_idx' = rg_idx + 1
    /\ rg_pc' = IF rg_idx + 1 = Len(raw_uniques) THEN "save" ELSE "loop"
    /\ UNCHANGED <<rg_session, contertulios_file, raw_uniques, NotRg>>

\* lines 177-181: the document is written back
RgSave ==
    /\ rg_pc = "save"
    /\ contertulios_file' =
           [exists |-> TRUE,
            content |-> [raw_uniques |-> contertulios_file.content.raw_uniques,
                         normalized |-> [type |-> "list",
                                         items |-> sorted(dict_values(aliases))],
                         aliases |-> aliases]]
    /\ rg_pc' = "done"
    /\ UNCHANGED <<rg_session, raw_uniques, normalized, aliases, canonical_names,
                   rg_idx, rg_asked, NotRg>>

\* the function is called again on the file the last session left
RgAgain ==
    /\ rg_pc = "done"
    /\ rg_session < MaxSessions
    /\ rg_session' = rg_session + 1
    /\ rg_pc' = "start"
    /\ raw_uniques' = <<>>
    /\ normalized' = <<>>
    /\ aliases' = <<>>
    /\ canonical_names' = <<>>
    /\ rg_idx' = 0
    /\ rg_asked' = <<>>
    /\ UNCHANGED <<contertulios_file, NotRg>>

\* the file is missing, or is the one extract_unique_contertulios writes
\* (lines 60-64)
RgInit ==
    /\ rg_pc = "start"
    /\ rg_session = 1
    /\ contertulios_file \in
           { [exists |-> FALSE, content |-> <<>>] } \cup
           { [exists |-> TRUE,
              content |-> [raw_uniques |-> r,
                           normalized |-> [type |-> "dict", items |-> <<>>],
                           aliases |-> <<>>]] : r \in RawLists }
    /\ raw_uniques = <<>>
    /\ normalized = <<>>
    /\ aliases = <<>>
    /\ canonical_names = <<>>
    /\ rg_idx = 0
    /\ rg_asked = <<>>

RgNext == RgLoad \/ RgReview \/ RgSave \/ RgAgain

InitRegistry == RgInit /\ NzIdle /\ MgIdle /\ LkIdle /\ RsIdle /\ CpIdle /\ RfIdle

SpecRegistry == InitRegistry /\ [][RgNext]_vars

----------------------------------------------------------------------------
(* normalize_contertulios.py: assisted_completion, validate_contertulios;  *)
(* normalize_contertulios_master_version.py: assisted_completion           *)

\* A description is the sequence of the runs of capitalized words found in
\* its fragments, a run being a sequence of words; the run <<>> is text
\* without a capitalized word, and the description <<>> is "".
RECURSIVE join(_)
join(run) ==
    IF Len(run) = 1 THEN run[1] ELSE run[1] \o <<" ">> \o join(Tail(run))

\* every capitalized word, and every run of two words or more as one name
extract_names_from_description(raw_description) ==
    UNION { { raw_description[i][k] : k \in 1..Len(raw_description[i]) }
            \cup (IF Len(raw_description[i]) >= 2
                     THEN { join(raw_description[i]) } ELSE {})
            : i \in 1..Len(raw_description) }

\* ' ' in raw
has_space(raw) == \E k \in 1..Len(raw) : raw[k] = " "

\* d.setdefault(key, []).append(x)
dict_append(d, key, x) ==
    IF dict_has(d, key)
       THEN [i \in 1..Len(d) |->
                IF d[i].key = key THEN [key |-> key, val |-> Append(d[i].val, x)]
                                  ELSE d[i]]
       ELSE Append(d, [key |-> key, val |-> <<x>>])

\* find_best_normalized_match for each of the potential names
best_matches(potential_names, normalized_names, threshold) ==
    [name \in potential_names |->
        find_best_normalized_match(name, normalized_names, threshold)]

\* norm_to_raws after the loop over potential_names, met in the order of
\* names; a match whose lowered form is in present is left out
RECURSIVE collect_matches(_, _, _, _, _)
collect_matches(names, k, best_match, present, norm_to_raws) ==
    IF k > Len(names) THEN norm_to_raws
    ELSE collect_matches(names, k + 1, best_match, present,
             IF best_match[names[k]] # <<>>
                    /\ StrLower(best_match[names[k]]) \notin present
                THEN dict_append(norm_to_raws, best_match[names[k]], names[k])
                ELSE norm_to_raws)

\* the filter of one raw match without a space
discard_single_KeepAll(norm_to_raws) == norm_to_raws

discard_single(norm_to_raws) ==
    SelectSeq(norm_to_raws,
              LAMBDA it : ~(Len(it.val) = 1 /\ ~has_space(it.val[1])))

\* has_multiword_name, as a filter
keep_multiword(norm_to_raws) ==
    SelectSeq(norm_to_raws,
              LAMBDA it : \E k \in 1..Len(it.val) : has_space(it.val[k]))

dict_keys(d) == [i \in 1..Len(d) |-> d[i].key]

\* the (raw, norm) pairs of validate_contertulios, as the norms to add
RECURSIVE missing_potential(_)
missing_potential(d) ==
    IF d = <<>> THEN <<>>
    ELSE [k \in 1..Len(d[1].val) |-> d[1].key] \o missing_potential(Tail(d))

\* the prompts of one item: "y" adds, "q" leaves the loop
RECURSIVE ask_each(_, _, _, _)
ask_each(items, k, answers, added) ==
    IF k > Len(items) THEN added
    ELSE IF answers[k] = "y" THEN ask_each(items, k + 1, answers,
                                           Append(added, items[k]))
    ELSE IF answers[k] = "q" THEN added
    ELSE ask_each(items, k + 1, answers, added)

add_loop(items, answers, batch) ==
    IF batch THEN items ELSE ask_each(items, 1, answers, <<>>)

\* the answers that were actually asked for
RECURSIVE asked_prefix(_)
asked_prefix(answers) ==
    IF answers = <<>> THEN <<>>
    ELSE IF answers[1] = "q" THEN <<"q">>
    ELSE <<answers[1]>> \o asked_prefix(Tail(answers))

AnswersFor(n, batch) ==
    IF batch THEN { <<>> } ELSE [1..n -> {"y", "n", "q"}]

\* the orders in which a set can be iterated
Orders(S) ==
    { q \in [1..Cardinality(S) -> S] :
        \A i, j \in 1..Cardinality(S) : i # j => q[i] # q[j] }

\* The values norm_to_raws can have after the loop over the set
\* potential_names, whose iteration order is not fixed.
norm_to_raws_values(potential_names, normalized_names, threshold, present) ==
    LET matches == { best_matches(potential_names, normalized_names, threshold) }
    IN  UNION { { collect_matches(names, 1, best_match, present, <<>>) :
                    names \in Orders(potential_names) }
                : best_match \in matches }

\* rec[key] = val on a record that may lack the key
with_field(rec, key, val) ==
    [k \in DOMAIN rec \cup {key} |-> IF k = key THEN val ELSE rec[k]]

get_description(rec) ==
    IF "raw_description" \in DOMAIN rec THEN rec.raw_description ELSE <<>>

\* master version: find_parts_without_contertulios
find_parts_without_contertulios(eps) ==
    LET all == [n \in 1..(Len(eps) * 2) |->
                   [episode_idx |-> ((n - 1) \div 2) + 1,
                    part_idx |-> ((n - 1) % 2) + 1]]
    IN  SelectSeq(all, LAMBDA it :
            /\ "Parts" \in DOMAIN eps[it.episode_idx]
            /\ it.part_idx <= Len(eps[it.episode_idx].Parts)
            /\ LET part == eps[it.episode_idx].Parts[it.part_idx] IN
               /\ "Contertulios" \notin DOMAIN part \/ part.Contertulios = <<>>
               /\ get_description(part) # <<>>)

\* master version: get_episode_number
get_episode_number(episode) ==
    IF "Episode_number" \notin DOMAIN episode THEN 999
    ELSE IF IsNumeral(episode.Episode_number)
            THEN ParseInt(episode.Episode_number) ELSE 999

sort_parts_chronologically(eps, parts_list) ==
    LET keyed == SortByKey([k \in 1..Len(parts_list) |->
                     [key |-> get_episode_number(eps[parts_list[k].episode_idx]),
                      val |-> parts_list[k]]])
    IN  [k \in 1..Len(parts_list) |-> keyed[k].val]

MaxItems == 2

Hector == <<"H","é","c","t","o","r">>
Socas == <<"S","o","c","a","s">>
OneWord == << <<Hector>> >>
TwoWords == << <<Hector>>, <<Socas>> >>
FullName == << <<Hector, Socas>> >>
FullNameAndWord == << <<Hector, Socas>>, <<Anna>> >>
CompletionRegistries ==
    { << [norm |-> HectorSocas, aliases |-> <<HSocas, Hector>>],
         [norm |-> Anna, aliases |-> <<>>] >> }
CompletionThresholds == { DEFAULT_SIMILARITY_THRESHOLD, 100 }
CompletionEpisodes ==
    { [entry_type |-> "episode", contertulios |-> <<>>, raw_description |-> d] :
          d \in { OneWord, TwoWords, FullNameAndWord, <<>> } }
    \cup { [entry_type |-> "news", contertulios |-> <<>>,
            raw_description |-> FullName],
           [entry_type |-> "episode", raw_description |-> FullName] }
ValidateEpisodes ==
    { [entry_type |-> "episode", contertulios |-> <<Luz>>,
       raw_description |-> d] : d \in { OneWord, TwoWords, FullName } }
    \cup { [entry_type |-> "episode", contertulios |-> <<HectorSocas>>,
            raw_description |-> FullNameAndWord],
           [entry_type |-> "episode", contertulios |-> <<>>,
            raw_description |-> FullName] }
MasterEpisodes ==
    { [Episode_number |-> <<"1", "0">>,
       Parts |-> << [raw_description |-> d] >>] : d \in { OneWord, FullName } }
    \cup { [Episode_number |-> <<"2">>,
            Parts |-> << [raw_description |-> TwoWords],
                         [raw_description |-> FullNameAndWord,
                          Contertulios |-> <<>>] >>],
           [Episode_number |-> <<"x">>,
            Parts |-> << [raw_description |-> FullName,
                          Contertulios |-> <<Anna>>],
                         [raw_description |-> <<>>] >>],
           [Episode_number |-> <<"7">>, Parts |-> <<>>] }
\* substitute_aliases, lines 201-209: the flat lookup from the lowered
\* aliases, then from the lowered canonical names, a later entry replacing an
\* earlier one of the same key
RECURSIVE alias_entries(_, _, _)
alias_entries(d, names, norm) ==
    IF names = <<>> THEN d
    ELSE alias_entries(dict_set(d, StrLower(names[1]), norm), Tail(names), norm)

RECURSIVE aliases_lookup(_, _)
aliases_lookup(d, normalized_names) ==
    IF normalized_names = <<>> THEN d
    ELSE aliases_lookup(alias_entries(d, normalized_names[1].aliases,
                                      normalized_names[1].norm),
                        Tail(normalized_names))

RECURSIVE norms_lookup(_, _)
norms_lookup(d, normalized_names) ==
    IF normalized_names = <<>> THEN d
    ELSE norms_lookup(dict_set(d, StrLower(normalized_names[1].norm),
                               normalized_names[1].norm),
                      Tail(normalized_names))

alias_to_normalized(normalized_names) ==
    norms_lookup(aliases_lookup(<<>>, normalized_names), normalized_names)

lookup_value(d, key) == d[CHOOSE i \in 1..Len(d) : d[i].key = key].val

\* lines 218-228: the names of one list, each replaced by its entry of the
\* lookup when its lowered form has one
normalized_contertulios(names, alias_lookup) ==
    [i \in 1..Len(names) |->
        IF dict_has(alias_lookup, StrLower(names[i]))
           THEN lookup_value(alias_lookup, StrLower(names[i]))
           ELSE names[i]]

\* lines 211-232: one episode of the loop
substitute_episode(episode, alias_lookup) ==
    IF "contertulios" \notin DOMAIN episode \/ episode.contertulios = <<>>
       THEN episode
       ELSE [episode EXCEPT !.contertulios =
                normalized_contertulios(@, alias_lookup)]

substitute_aliases(episodes, normalized_names) ==
    [i \in 1..Len(episodes) |->
        substitute_episode(episodes[i], alias_to_normalized(normalized_names))]

AnnaLower == <<"a","n","n","a">>
SubstituteRegistries ==
    { << [norm |-> Anna, aliases |-> <<Ani, Anne>>],
         [norm |-> Luz, aliases |-> <<>>] >>,
      << [norm |-> Anna, aliases |-> <<Ani>>],
         [norm |-> AnnaUpper, aliases |-> <<Anne>>] >>,
      << [norm |-> Anna, aliases |-> <<>>],
         [norm |-> Luz, aliases |-> <<AnnaLower, Ani>>] >>,
      << [norm |-> Luz, aliases |-> <<Ani>>],
         [norm |-> Anna, aliases |-> <<Ani>>] >> }
SubstituteLists ==
    { <<>>, <<Ani>>, <<Anne, Pedro>>, <<AnnaLower, Ani>>, <<AnnaUpper, Anna>>,
      <<Pedro, Anna, Anna>> }
SubstituteEpisodes ==
    { [entry_type |-> "episode", contertulios |-> names] :
          names \in SubstituteLists }
    \cup { [entry_type |-> "news"] }

EpisodePool(tool) ==
    CASE tool = "completion" -> CompletionEpisodes
      [] tool = "validate" -> ValidateEpisodes
      [] tool = "master_completion" -> MasterEpisodes
      [] tool = "substitute" -> SubstituteEpisodes

\* the function is entered: lines 253-254 and 344-345 of
\* normalize_contertulios.py, lines 346-376 of the master version
CpCall ==
    /\ cp_pc = "call"
    /\ IF cp_tool = "master_completion"
          THEN LET parts == find_parts_without_contertulios(cp_episodes) IN
               /\ cp_updated' = cp_episodes
               /\ IF parts = <<>>
                     THEN cp_pc' = "returned" /\ UNCHANGED cp_parts
                     ELSE /\ cp_parts' =
                                sort_parts_chronologically(cp_episodes, parts)
                          /\ IF non_interactive THEN cp_pc' = "loop"
                             ELSE \E proceed \in {"y", "n"} :
                                     cp_pc' = IF proceed = "y" THEN "loop"
                                                               ELSE "returned"
          ELSE /\ cp_updated' = <<>>
               /\ cp_pc' = IF cp_episodes = <<>> THEN "returned" ELSE "loop"
               /\ UNCHANGED cp_parts
    /\ UNCHANGED <<cp_tool, non_interactive, cp_names, cp_threshold, cp_episodes,
                   cp_idx, cp_trace, NotCp>>

\* normalize_contertulios.py lines 255-324: one episode of assisted_completion
CpComplete ==
    /\ cp_pc = "loop"
    /\ cp_tool = "completion"
    /\ cp_idx < Len(cp_episodes)
    /\ LET episode == cp_episodes[cp_idx + 1]
           potential_names ==
               extract_names_from_description(get_description(episode))
           Unchanged(suggestions) ==
               /\ cp_updated' = Append(cp_updated, episode)
               /\ cp_trace' = Append(cp_trace,
                      [suggestions |-> suggestions, asked |-> <<>>,
                       added |-> <<>>])
       IN
       IF \/ episode.entry_type # "episode"
          \/ "contertulios" \notin DOMAIN episode
          \/ episode.contertulios # <<>>
          \/ get_description(episode) = <<>>
          \/ potential_names = {}
          THEN Unchanged(<<>>)
          ELSE \E norm_to_raws \in norm_to_raws_values(potential_names,
                                       cp_names, cp_threshold, {}) :
                  LET already_present ==
                          { StrLower(episode.contertulios[i]) :
                              i \in 1..Len(episode.contertulios) }
                      filtered_norm_to_raws == discard_single(norm_to_raws)
                      suggestions ==
                          SelectSeq(dict_keys(filtered_norm_to_raws),
                              LAMBDA norm : StrLower(norm) \notin already_present)
                  IN
                  IF suggestions = <<>> THEN Unchanged(<<>>)
                  ELSE \E answers \in AnswersFor(Len(suggestions),
                                                 non_interactive) :
                          LET suggested_contertulios ==
                                  add_loop(suggestions, answers, non_interactive)
                          IN
                          /\ cp_updated' = Append(cp_updated,
                                 IF suggested_contertulios # <<>>
                                    THEN [episode EXCEPT !.contertulios =
                                              suggested_contertulios]
                                    ELSE episode)
                          /\ cp_trace' = Append(cp_trace,
                                 [suggestions |-> suggestions,
                                  asked |-> asked_prefix(answers),
                                  added |-> suggested_contertulios])
    /\ cp_idx' = cp_idx + 1
    /\ cp_pc' = IF cp_idx + 1 = Len(cp_episodes) THEN "returned" ELSE "loop"
    /\ UNCHANGED <<cp_tool, non_interactive, cp_names, cp_threshold, cp_episodes,
                   cp_parts, NotCp>>

\* normalize_contertulios.py lines 347-423: one episode of
\* validate_contertulios
CpValidate ==
    /\ cp_pc = "loop"
    /\ cp_tool = "validate"
    /\ cp_idx < Len(cp_episodes)
    /\ LET episode == cp_episodes[cp_idx + 1]
           potential_names ==
               extract_names_from_description(get_description(episode))
           Unchanged(suggestions) ==
               /\ cp_updated' = Append(cp_updated, episode)
               /\ cp_trace' = Append(cp_trace,
                      [suggestions |-> suggestions, asked |-> <<>>,
                       added |-> <<>>])
       IN
       IF \/ episode.entry_type # "episode"
          \/ "contertulios" \notin DOMAIN episode
          \/ episode.contertulios = <<>>
          \/ get_description(episode) = <<>>
          \/ potential_names = {}
          THEN Unchanged(<<>>)
          ELSE \E norm_to_raws \in norm_to_raws_values(potential_names,
                                       cp_names, cp_threshold,
                                       { StrLower(episode.contertulios[i]) :
                                           i \in 1..Len(episode.contertulios) }) :
                  LET filtered_norm_to_raws == discard_single(norm_to_raws)
                      missing == missing_potential(filtered_norm_to_raws)
                  IN
                  IF missing = <<>> THEN Unchanged(<<>>)
                  ELSE \E answers \in AnswersFor(Len(missing), non_interactive) :
                          LET additional_contertulios ==
                                  add_loop(missing, answers, non_interactive)
                          IN
                          /\ cp_updated' = Append(cp_updated,
                                 IF additional_contertulios # <<>>
                                    THEN [episode EXCEPT !.contertulios =
                                              @ \o additional_contertulios]
                                    ELSE episode)
                          /\ cp_trace' = Append(cp_trace,
                                 [suggestions |->
                                      dict_keys(filtered_norm_to_raws),
                                  asked |-> asked_prefix(answers),
                                  added |-> additional_contertulios])
    /\ cp_idx' = cp_idx + 1
    /\ cp_pc' = IF cp_idx + 1 = Len(cp_episodes) THEN "returned" ELSE "loop"
    /\ UNCHANGED <<cp_tool, non_interactive, cp_names, cp_threshold, cp_episodes,
                   cp_parts, NotCp>>

\* master version lines 384-467: one part of assisted_completion
CpMasterPart ==
    /\ cp_pc = "loop"
    /\ cp_tool = "master_completion"
    /\ cp_idx < Len(cp_parts)
    /\ LET episode_idx == cp_parts[cp_idx + 1].episode_idx
           part_idx == cp_parts[cp_idx + 1].part_idx
           part == cp_episodes[episode_idx].Parts[part_idx]
           potential_names ==
               extract_names_from_description(get_description(part))
           Unchanged ==
               /\ UNCHANGED cp_updated
               /\ cp_trace' = Append(cp_trace,
                      [suggestions |-> <<>>, asked |-> <<>>, added |-> <<>>])
       IN
       IF potential_names = {} THEN Unchanged
       ELSE \E norm_to_raws \in norm_to_raws_values(potential_names,
                                    cp_names, cp_threshold, {}) :
               LET filtered_norm_to_raws ==
                       keep_multiword(discard_single(norm_to_raws))
                   suggestions == dict_keys(filtered_norm_to_raws)
               IN
               IF filtered_norm_to_raws = <<>> THEN Unchanged
               ELSE \E answers \in AnswersFor(Len(suggestions),
                                              non_interactive) :
                       LET suggested_contertulios ==
                               add_loop(suggestions, answers, non_interactive)
                       IN
                       /\ cp_updated' =
                              IF suggested_contertulios # <<>>
                                 THEN [cp_updated EXCEPT
                                          ![episode_idx].Parts[part_idx] =
                                              with_field(@, "Contertulios",
                                                  suggested_contertulios)]
                                 ELSE cp_updated
                       /\ cp_trace' = Append(cp_trace,
                              [suggestions |-> suggestions,
                               asked |-> asked_prefix(answers),
                               added |-> suggested_contertulios])
    /\ cp_idx' = cp_idx + 1
    /\ cp_pc' = IF cp_idx + 1 = Len(cp_parts) THEN "returned" ELSE "loop"
    /\ UNCHANGED <<cp_tool, non_interactive, cp_names, cp_threshold, cp_episodes,
                   cp_parts, NotCp>>

\* normalize_contertulios.py lines 211-232: one episode of substitute_aliases
CpSubstitute ==
    /\ cp_pc = "loop"
    /\ cp_tool = "substitute"
    /\ cp_idx < Len(cp_episodes)
    /\ cp_updated' = Append(cp_updated,
           substitute_episode(cp_episodes[cp_idx + 1],
                              alias_to_normalized(cp_names)))
    /\ cp_idx' = cp_idx + 1
    /\ cp_pc' = IF cp_idx + 1 = Len(cp_episodes) THEN "returned" ELSE "loop"
    /\ UNCHANGED <<cp_tool, non_interactive, cp_names, cp_threshold, cp_episodes,
                   cp_parts, cp_trace, NotCp>>

\* substitute_aliases takes the registry alone: no threshold, no prompt
CpInit ==
    /\ cp_pc = "call"
    /\ cp_tool \in {"completion", "validate", "master_completion", "substitute"}
    /\ non_interactive \in IF cp_tool = "substitute" THEN {FALSE} ELSE BOOLEAN
    /\ cp_names \in IF cp_tool = "substitute" THEN SubstituteRegistries
                                              ELSE CompletionRegistries
    /\ cp_threshold \in IF cp_tool = "substitute"
                            THEN {DEFAULT_SIMILARITY_THRESHOLD}
                            ELSE CompletionThresholds
    /\ cp_episodes \in UNION { [1..n -> EpisodePool(cp_tool)] : n \in 0..MaxItems }
    /\ cp_parts = <<>>
    /\ cp_idx = 0
    /\ cp_updated = <<>>
    /\ cp_trace = <<>>

CpNext == CpCall \/ CpComplete \/ CpValidate \/ CpMasterPart \/ CpSubstitute

InitComplete == CpInit /\ NzIdle /\ MgIdle /\ LkIdle /\ RsIdle /\ RgIdle /\ RfIdle

SpecComplete == InitComplete /\ [][CpNext]_vars

----------------------------------------------------------------------------
(* master_refine.py *)

\* A key that a record does not have, or whose value is None; .get() gives None
None == [is_none |-> TRUE]
Some(chars) == [is_none |-> FALSE, val |-> chars]

\* int(s) : surrounding whitespace is dropped, then the text must be decimal
\* digits; anything else raises ValueError
int_raises(s) ==
    LET t == strip(s)
    IN  t = <<>> \/ \E i \in 1..Len(t) : t[i] \notin Digit
int(s) == ParseInt(strip(s))

\* str.split(":")
RECURSIVE split_colon(_)
split_colon(s) ==
    IF \A i \in 1..Len(s) : s[i] # ":" THEN <<s>>
    ELSE LET at == CHOOSE i \in 1..Len(s) :
                       s[i] = ":" /\ \A j \in 1..(i - 1) : s[j] # ":"
         IN  <<SubSeq(s, 1, at - 1)>> \o split_colon(SubSeq(s, at + 1, Len(s)))

\* parse_duration raises what int() raises: the function has no try
parse_duration_raises(duration_str) ==
    IF duration_str = <<>> THEN FALSE
    ELSE LET parts == split_colon(strip(duration_str))
         IN  /\ Len(parts) \in {2, 3}
             /\ \E i \in 1..Len(parts) : int_raises(parts[i])

parse_duration(duration_str) ==
    IF duration_str = <<>> THEN 0
    ELSE LET parts == split_colon(strip(duration_str))
         IN  IF Len(parts) = 3
             THEN int(parts[1]) * 3600 + int(parts[2]) * 60 + int(parts[3])
             ELSE IF Len(parts) = 2
             THEN int(parts[1]) * 60 + int(parts[2])
             ELSE 0

\* The accepted layouts, in the order parse_date tries them
formats == << "%a, %d %b %Y %H:%M:%S %z",
              "%a, %d %b %Y %H:%M:%S",
              "%Y-%m-%d %H:%M:%S",
              "%Y-%m-%d" >>

\* A date string is kept as the layout it is written in and the numbers it
\* spells: [layout, year, month, day, hour, minute, second, offset], the
\* offset in minutes. Text in no known layout is [layout |-> "text", text].
is_leap(year) == year % 4 = 0 /\ (year % 100 # 0 \/ year % 400 = 0)
days_in_month(year, month) ==
    IF month = 2 THEN (IF is_leap(year) THEN 29 ELSE 28)
    ELSE IF month \in {4, 6, 9, 11} THEN 30 ELSE 31

\* datetime.strptime(date_str, fmt): the text must be in the layout fmt and
\* spell a date and a time that exist, or ValueError is raised
strptime_raises(date_str, fmt) ==
    \/ date_str.layout # fmt
    \/ date_str.year \notin 1..9999
    \/ date_str.month \notin 1..12
    \/ date_str.day \notin 1..days_in_month(date_str.year, date_str.month)
    \/ date_str.hour \notin 0..23
    \/ date_str.minute \notin 0..59
    \/ date_str.second \notin 0..59

\* the datetime: aware only when the layout has %z
strptime(date_str, fmt) ==
    [year |-> date_str.year, month |-> date_str.month, day |-> date_str.day,
     hour |-> date_str.hour, minute |-> date_str.minute,
     second |-> date_str.second,
     aware |-> (fmt = formats[1]),
     utcoffset |-> IF fmt = formats[1] THEN date_str.offset ELSE 0]

\* truth value of a date string: None and "" are false
date_truthy(date_str) ==
    /\ date_str # None
    /\ ~(date_str.layout = "text" /\ date_str.text = "")

RECURSIVE parse_date_from(_, _)
parse_date_from(date_str, k) ==
    IF k > Len(formats) THEN None
    ELSE IF strptime_raises(date_str, formats[k])
    THEN parse_date_from(date_str, k + 1)
    ELSE strptime(date_str, formats[k])

parse_date(date_str) ==
    IF ~date_truthy(date_str) THEN None ELSE parse_date_from(date_str, 1)

\* strftime("%d/%m/%Y")
get_date_string(dt) ==
    <<DigitChar(dt.day \div 10), DigitChar(dt.day % 10), "/",
      DigitChar(dt.month \div 10), DigitChar(dt.month % 10), "/">>
    \o Zeros(4 - Len(DecimalDigits(dt.year))) \o DecimalDigits(dt.year)

\* Order of datetimes: date.toordinal() and the seconds of the day, the offset
\* taken off for aware values
days_before_year(year) ==
    (year - 1) * 365 + (year - 1) \div 4 - (year - 1) \div 100
    + (year - 1) \div 400
RECURSIVE days_before_month(_, _)
days_before_month(year, month) ==
    IF month = 1 THEN 0
    ELSE days_before_month(year, month - 1) + days_in_month(year, month - 1)
toordinal(dt) ==
    days_before_year(dt.year) + days_before_month(dt.year, dt.month) + dt.day
instant(dt) ==
    LET secs == dt.hour * 3600 + dt.minute * 60 + dt.second - dt.utcoffset * 60
    IN  <<toordinal(dt) + secs \div 86400, secs % 86400>>
datetime_lt(a, b) ==
    \/ instant(a)[1] < instant(b)[1]
    \/ instant(a)[1] = instant(b)[1] /\ instant(a)[2] < instant(b)[2]

\* min(dates) compares values; an aware and a naive one cannot be compared
\* and raise TypeError
min_raises(dates) ==
    \E i, j \in 1..Len(dates) : dates[i].aware # dates[j].aware
\* the first of the smallest values
min(dates) ==
    dates[CHOOSE i \in 1..Len(dates) :
              /\ \A j \in 1..Len(dates) : ~datetime_lt(dates[j], dates[i])
              /\ \A j \in 1..(i - 1) : datetime_lt(dates[i], dates[j])]

\* the dates list of one episode, built by the inner loop
parsed_dates(parts) ==
    LET found == SelectSeq(parts, LAMBDA part : parse_date(part.Date) # None)
    IN  [i \in 1..Len(found) |-> parse_date(found[i].Date)]

dates_raise(episode) ==
    parsed_dates(episode.Parts) # <<>> /\ min_raises(parsed_dates(episode.Parts))

\* a variant that sets the date without looking at the stored one
needs_date_Unconditional(episode) == parsed_dates(episode.Parts) # <<>>

needs_date(episode) ==
    /\ parsed_dates(episode.Parts) # <<>>
    /\ episode.publication_date
         # Some(get_date_string(min(parsed_dates(episode.Parts))))

\* add_episode_dates : [raised, doc, updated_count]
RECURSIVE count_true(_)
count_true(flags) ==
    IF flags = <<>> THEN 0
    ELSE (IF Head(flags) THEN 1 ELSE 0) + count_true(Tail(flags))

add_episode_dates(doc) ==
    IF \E i \in 1..Len(doc) : dates_raise(doc[i])
    THEN [raised |-> "TypeError", doc |-> doc, updated_count |-> 0]
    ELSE [raised |-> "",
          doc |-> [i \in 1..Len(doc) |->
                     IF needs_date(doc[i])
                     THEN [doc[i] EXCEPT !.publication_date =
                             Some(get_date_string(min(parsed_dates(doc[i].Parts))))]
                     ELSE doc[i]],
          updated_count |-> count_true([i \in 1..Len(doc) |-> needs_date(doc[i])])]

\* the sum of one episode, built by the inner loop
RECURSIVE sum_durations(_)
sum_durations(parts) ==
    IF parts = <<>> THEN 0
    ELSE (IF Head(parts).Duration # <<>>
          THEN parse_duration(Head(parts).Duration) ELSE 0)
         + sum_durations(Tail(parts))

durations_raise(episode) ==
    \E i \in 1..Len(episode.Parts) :
        parse_duration_raises(episode.Parts[i].Duration)

needs_duration(episode) ==
    /\ sum_durations(episode.Parts) > 0
    /\ episode.total_duration_seconds # Some(sum_durations(episode.Parts))

\* add_total_durations : [raised, doc, updated_count]
add_total_durations(doc) ==
    IF \E i \in 1..Len(doc) : durations_raise(doc[i])
    THEN [raised |-> "ValueError", doc |-> doc, updated_count |-> 0]
    ELSE [raised |-> "",
          doc |-> [i \in 1..Len(doc) |->
                     IF needs_duration(doc[i])
                     THEN [doc[i] EXCEPT !.total_duration_seconds =
                             Some(sum_durations(doc[i].Parts))]
                     ELSE doc[i]],
          updated_count |->
              count_true([i \in 1..Len(doc) |-> needs_duration(doc[i])])]

\* load_promo_links : the list of the file, [] when it cannot be read
load_promo_links(promo) ==
    IF promo.readable THEN promo.content ELSE <<>>

cleaned_links(ref_links, promo_links) ==
    SelectSeq(ref_links,
              LAMBDA link : \A k \in 1..Len(promo_links) : promo_links[k] # link)

\* clean_promo_links : [doc, stats], stats a dict episode number -> removals
RECURSIVE promo_stats(_, _)
promo_stats(doc, promo_links) ==
    IF doc = <<>> THEN <<>>
    ELSE LET episode == doc[Len(doc)]
             before == promo_stats(SubSeq(doc, 1, Len(doc) - 1), promo_links)
             removed_count == Len(episode.ref_links)
                              - Len(cleaned_links(episode.ref_links, promo_links))
         IN  IF removed_count > 0
             THEN dict_set(before, episode.number, removed_count)
             ELSE before

clean_promo_links(doc, promo) ==
    LET promo_links == load_promo_links(promo)
    IN  IF promo_links = <<>> THEN [doc |-> doc, stats |-> <<>>]
        ELSE [doc |-> [i \in 1..Len(doc) |->
                         IF Len(cleaned_links(doc[i].ref_links, promo_links))
                            < Len(doc[i].ref_links)
                         THEN [doc[i] EXCEPT !.ref_links =
                                 cleaned_links(doc[i].ref_links, promo_links)]
                         ELSE doc[i]],
              stats |-> promo_stats(doc, promo_links)]

\* re.compile(r"^Ep ?\d{2,3}(_[A-Za-z]+)?: ?") : where a match at the start of
\* the title ends, 0 when there is none. Each optional piece is tried present
\* first, the digits three before two.
char_at(s, i) == IF i \in 1..Len(s) THEN s[i] ELSE ""
RECURSIVE run_length(_, _, _)
run_length(s, i, class) ==
    IF char_at(s, i) \in class THEN 1 + run_length(s, i + 1, class) ELSE 0

\* (_[A-Za-z]+)?: from position i : the position after the colon, 0 if none
after_suffix(s, i) ==
    LET n == run_length(s, i + 1, Letter)
    IN  IF char_at(s, i) = "_" /\ n >= 1 /\ char_at(s, i + 1 + n) = ":"
        THEN i + 2 + n
        ELSE IF char_at(s, i) = ":" THEN i + 1 ELSE 0

pattern_match(title) ==
    IF ~(char_at(title, 1) = "E" /\ char_at(title, 2) = "p") THEN 0
    ELSE LET i == IF char_at(title, 3) = " " THEN 4 ELSE 3
             n == run_length(title, i, Digit)
             colon == IF n >= 3 /\ after_suffix(title, i + 3) # 0
                      THEN after_suffix(title, i + 3)
                      ELSE IF n >= 2 THEN after_suffix(title, i + 2) ELSE 0
         IN  IF colon = 0 THEN 0
             ELSE IF char_at(title, colon) = " " THEN colon ELSE colon - 1

\* pattern.sub("", title) : the pattern is anchored, one match at most
pattern_sub(title) == SubSeq(title, pattern_match(title) + 1, Len(title))

title_affected(episode) ==
    episode.Title # <<>> /\ pattern_match(episode.Title) # 0

clean_titles(doc) ==
    [i \in 1..Len(doc) |->
        IF title_affected(doc[i])
        THEN [doc[i] EXCEPT !.Title = pattern_sub(doc[i].Title)]
        ELSE doc[i]]

affected_titles(doc) ==
    LET hit == SelectSeq(doc, title_affected)
    IN  [i \in 1..Len(hit) |-> hit[i].Title]

(* The runs of one operator session: the same command line, again and again *)

MaxRuns == 2
MaxParts == 2

RfcTz == formats[1]
Rfc == formats[2]
IsoDT == formats[3]
IsoD == formats[4]
DateText(layout, y, mo, d, h, mi, s, off) ==
    [layout |-> layout, year |-> y, month |-> mo, day |-> d, hour |-> h,
     minute |-> mi, second |-> s, offset |-> off]
\* "Thu, 03 Apr 2025 20:41:51 +0200"
TzEvening == DateText(RfcTz, 2025, 4, 3, 20, 41, 51, 120)
\* "Fri, 04 Apr 2025 00:30:00 +0900", an earlier instant on a later local day
TzAhead == DateText(RfcTz, 2025, 4, 4, 0, 30, 0, 540)
\* "Wed, 02 Apr 2025 10:00:00"
NoTz == DateText(Rfc, 2025, 4, 2, 10, 0, 0, 0)
\* "2025-04-03 20:41:51"
IsoDateTime == DateText(IsoDT, 2025, 4, 3, 20, 41, 51, 0)
\* "2025-04-01"
IsoDate == DateText(IsoD, 2025, 4, 1, 0, 0, 0, 0)
\* "2025-02-30", a day that does not exist
BadDay == DateText(IsoD, 2025, 2, 30, 0, 0, 0, 0)
FreeText == [layout |-> "text", text |-> "abril de 2025"]
EmptyText == [layout |-> "text", text |-> ""]
DateStrings == {TzEvening, TzAhead, NoTz, IsoDateTime, IsoDate, BadDay, FreeText}

DurationStrings ==
    { <<"1", ":", "0", "2", ":", "0", "3">>,
      <<"4", "5", ":", "1", "0">>,
      <<>>,
      <<"9", "0">>,
      <<"1", "2", ":", "x", "x">>,
      <<" ", "5", ":", "0", "0", " ">>,
      <<"0", ":", "0", "0">> }

PromoLink == "https://promo.example/patreon"
PaperLink == "https://arxiv.example/abs/1"
LinkLists == { <<>>, <<PromoLink>>, <<PaperLink>>,
               <<PaperLink, PromoLink, PromoLink>> }

Titles ==
    { <<"E","p","1","2",":"," ","X">>,
      <<"E","p"," ","1","2","3","_","B",":","X">>,
      <<"E","p","1","2",":"," ","E","p","1","3",":"," ","X">>,
      <<"E","p","1","2","_","A",":","E","p"," ","1","3","_","B",":"," ","X">>,
      <<"E","p","1",":"," ","X">>,
      <<"E","p","1","2","3","4",":"," ","X">>,
      <<"E","p","1","2","_",":"," ","X">>,
      <<"e","p","1","2",":"," ","X">>,
      <<"X"," ","E","p","1","2",":">>,
      <<>> }

PlainTitle == <<"X">>
Part(date, duration) == [Date |-> date, Duration |-> duration]
PlainPart == Part(TzEvening, <<"4", "5", ":", "1", "0">>)
OnlyPart == [Date |-> TzEvening, Duration |-> <<"4", "5", ":", "1", "0">>,
             Part_class |-> "Only"]
FirstPart == [Date |-> TzEvening, Duration |-> <<"4", "5", ":", "1", "0">>,
              Part_class |-> "A"]
Ep105 == <<"1", "0", "5">>
Ep106 == <<"1", "0", "6">>
Ep475 == <<"4", "7", "5">>
Ep484 == <<"4", "8", "4">>
Episode(number, title, parts, links, date, total) ==
    [number |-> number, Title |-> title, Parts |-> parts, ref_links |-> links,
     publication_date |-> date, total_duration_seconds |-> total]

SeqsUpTo(S, n) == UNION { [1..k -> S] : k \in 1..n }

DateEpisodes ==
    { Episode(Ep105, PlainTitle, [i \in 1..Len(ds) |-> Part(ds[i], <<"4", "5", ":", "1", "0">>)],
              <<>>, None, None) : ds \in SeqsUpTo(DateStrings, MaxParts) }
DurationEpisodes ==
    { Episode(Ep105, PlainTitle, [i \in 1..Len(us) |-> Part(TzEvening, us[i])],
              <<>>, None, None) : us \in SeqsUpTo(DurationStrings, MaxParts) }
LinkEpisodes ==
    { Episode(Ep105, PlainTitle, <<PlainPart>>, links, None, None) :
        links \in LinkLists }
TitleEpisodes ==
    { Episode(Ep105, title, <<PlainPart>>, <<>>, None, None) : title \in Titles }
\* episodes that carry derived fields already, right or stale, and parts
\* without a date
StoredEpisodes ==
    { Episode(Ep105, PlainTitle, <<PlainPart>>, <<PromoLink>>,
              Some(<<"0","3","/","0","4","/","2","0","2","5">>), Some(2710)),
      Episode(Ep105, PlainTitle, <<PlainPart>>, <<>>,
              Some(<<"0","1","/","0","1","/","2","0","0","0">>), Some(1)),
      Episode(Ep105, PlainTitle, <<Part(None, <<>>), Part(EmptyText, <<>>)>>,
              <<>>, None, None),
      Episode(Ep105, PlainTitle, <<>>, <<>>, None, None) }
\* episodes with excerpt parts, inside and outside the range of --clear-extractos
ExtractoEpisodes ==
    { Episode(number, PlainTitle, parts, <<>>, None, None) :
        number \in {Ep475, Ep484},
        parts \in SeqsUpTo({OnlyPart, FirstPart, PlainPart}, MaxParts) }
SecondEpisode ==
    Episode(Ep106, <<"E","p","1","0","6",":"," ","Y">>,
            <<Part(IsoDate, <<"1", ":", "0", "0", ":", "0", "0">>)>>,
            <<PromoLink, PaperLink>>, None, None)

LinkDocuments ==
    { <<e>> : e \in LinkEpisodes } \cup { <<e, SecondEpisode>> : e \in LinkEpisodes }
Documents ==
    { <<e>> : e \in DateEpisodes \cup DurationEpisodes \cup TitleEpisodes
                     \cup StoredEpisodes \cup ExtractoEpisodes }
    \cup { <<e, SecondEpisode>> : e \in StoredEpisodes }
    \cup LinkDocuments

PromoFile == [readable |-> TRUE, content |-> <<PromoLink>>]
NoPromoFile == [readable |-> FALSE, content |-> <<>>]
NoFile == [exists |-> FALSE, content |-> <<>>]
MasterFile(doc) == [exists |-> TRUE, content |-> doc]
RefinerInputs ==
    ({NoFile} \cup {MasterFile(doc) : doc \in Documents}) \X {PromoFile}
    \cup {MasterFile(doc) : doc \in LinkDocuments} \X {NoPromoFile}

MainArgs ==
    { [clean_titles |-> FALSE, clear_extractos |-> FALSE, add_dates |-> a,
       add_duration |-> b, clean_links |-> c, dry_run |-> d] :
        a, b, c, d \in BOOLEAN }
CleanTitlesArgs ==
    { [clean_titles |-> TRUE, clear_extractos |-> FALSE, add_dates |-> FALSE,
       add_duration |-> FALSE, clean_links |-> FALSE, dry_run |-> d] :
        d \in BOOLEAN }
ClearExtractosArgs ==
    { [clean_titles |-> FALSE, clear_extractos |-> TRUE, add_dates |-> FALSE,
       add_duration |-> FALSE, clean_links |-> FALSE, dry_run |-> d] :
        d \in BOOLEAN }
Answers == { <<"y">>, <<"Y">>, <<"n">>, <<>> }

\* what a run did about the backup: "skipped" when it made none, and the
\* answer to "Failed to create backup. Continue? (y/N)" when it was asked
NoBackup == [made |-> "skipped", answer |-> None]
BackupMade == [made |-> "created", answer |-> None]
BackupFailed(answer) == [made |-> "failed", answer |-> answer]

continue_without_backup_ByDefault(answer) == StrLower(answer) # <<"n">>

\* main(), line 337 : console.input(...).lower() == 'y'
continue_without_backup(answer) == StrLower(answer) = <<"y">>

\* cli(), lines 584-609 : the parts of class "Only" leave the episodes whose
\* number lies in 473..483
start_episode == 473
end_episode == 483
part_class(part) ==
    IF "Part_class" \in DOMAIN part THEN Some(part.Part_class) ELSE None
filtered_parts(episode) ==
    SelectSeq(episode.Parts, LAMBDA part : part_class(part) # Some("Only"))
in_range(episode) ==
    /\ start_episode <= int(episode.number)
    /\ int(episode.number) <= end_episode
clears(episode) ==
    in_range(episode) /\ Len(filtered_parts(episode)) < Len(episode.Parts)
clear_extractos(doc) ==
    [i \in 1..Len(doc) |->
        IF clears(doc[i]) THEN [doc[i] EXCEPT !.Parts = filtered_parts(doc[i])]
                          ELSE doc[i]]

NoReport == [outcome |-> "none"]
MainReport(outcome, date_updates, duration_updates, link_stats, updates_made, wrote) ==
    [outcome |-> outcome, date_updates |-> date_updates,
     duration_updates |-> duration_updates, link_stats |-> link_stats,
     updates_made |-> updates_made, wrote |-> wrote]
Stopped(outcome) == MainReport(outcome, 0, 0, <<>>, FALSE, FALSE)
NoTask(doc) == [raised |-> "", doc |-> doc, updated_count |-> 0]

\* main(), lines 341-365 : the requested tasks in their order, up to the
\* first one that raises
run_tasks(doc, args, promo) ==
    LET dated == IF args.add_dates THEN add_episode_dates(doc) ELSE NoTask(doc)
        timed == IF dated.raised # "" THEN dated
                 ELSE IF args.add_duration THEN add_total_durations(dated.doc)
                 ELSE NoTask(dated.doc)
        linked == IF args.clean_links THEN clean_promo_links(timed.doc, promo)
                  ELSE [doc |-> timed.doc, stats |-> <<>>]
    IN  [raised |-> timed.raised,
         doc |-> linked.doc,
         date_updates |-> dated.updated_count,
         duration_updates |-> IF args.add_duration THEN timed.updated_count
                              ELSE 0,
         link_stats |-> linked.stats]

\* main(): lines 315-381, from the task check to the write
RfMain ==
    /\ rf_runs < MaxRuns
    /\ ~rf_args.clean_titles /\ ~rf_args.clear_extractos
    /\ rf_runs' = rf_runs + 1
    /\ UNCHANGED <<rf_args, promo_file, NotRf>>
    /\ IF ~(rf_args.add_dates \/ rf_args.add_duration \/ rf_args.clean_links)
       THEN /\ rf_report' = Stopped("nothing to do")
            /\ rf_backup' = NoBackup
            /\ UNCHANGED <<master_json, master_bak>>
       ELSE IF ~master_json.exists
       THEN /\ rf_report' = Stopped("not found")
            /\ rf_backup' = NoBackup
            /\ UNCHANGED <<master_json, master_bak>>
       ELSE \E done \in {run_tasks(master_json.content, rf_args, promo_file)} :
            \E backup_ok \in BOOLEAN, answer \in Answers, write_ok \in BOOLEAN :
            LET updates_made == \/ done.date_updates > 0
                                \/ done.duration_updates > 0
                                \/ done.link_stats # <<>>
                written == updates_made /\ ~rf_args.dry_run /\ write_ok
            IN  /\ rf_backup' = IF rf_args.dry_run THEN NoBackup
                                ELSE IF backup_ok THEN BackupMade
                                ELSE BackupFailed(Some(answer))
                /\ IF ~rf_args.dry_run /\ ~backup_ok
                         /\ ~continue_without_backup(answer)
                   THEN /\ rf_report' = Stopped("aborted")
                        /\ UNCHANGED <<master_json, master_bak>>
                   ELSE /\ master_bak' =
                             IF ~rf_args.dry_run /\ backup_ok
                             THEN [exists |-> TRUE, content |-> master_json.content]
                             ELSE master_bak
                        /\ IF done.raised # ""
                           THEN /\ rf_report' = Stopped(done.raised)
                                /\ UNCHANGED master_json
                           ELSE /\ rf_report' =
                                     MainReport("done", done.date_updates,
                                         done.duration_updates, done.link_stats,
                                         updates_made, written)
                                /\ master_json' =
                                     IF written
                                     THEN [exists |-> TRUE, content |-> done.doc]
                                     ELSE master_json

\* cli(), --clean-titles : lines 511-559; the copy to the backup path is made
\* whatever the other flags are, and an error in it is not caught
RfCleanTitles ==
    /\ rf_runs < MaxRuns
    /\ rf_args.clean_titles
    /\ rf_runs' = rf_runs + 1
    /\ UNCHANGED <<rf_args, promo_file, NotRf>>
    /\ IF ~master_json.exists
       THEN /\ rf_report' = [outcome |-> "FileNotFoundError"]
            /\ rf_backup' = NoBackup
            /\ UNCHANGED <<master_json, master_bak>>
       ELSE \E backup_ok \in BOOLEAN :
            IF ~backup_ok
            THEN /\ rf_report' = [outcome |-> "OSError"]
                 /\ rf_backup' = BackupFailed(None)
                 /\ UNCHANGED <<master_json, master_bak>>
            ELSE /\ rf_backup' = BackupMade
                 /\ master_bak' =
                        [exists |-> TRUE, content |-> master_json.content]
                 /\ master_json' =
                        [exists |-> TRUE,
                         content |-> clean_titles(master_json.content)]
                 /\ rf_report' = [outcome |-> "titles cleaned",
                                  affected_titles |->
                                      affected_titles(master_json.content)]

\* cli(), --clear-extractos : lines 562-621, reached when --clean-titles is
\* absent; no backup is made and no other flag is read
RfClearExtractos ==
    /\ rf_runs < MaxRuns
    /\ ~rf_args.clean_titles /\ rf_args.clear_extractos
    /\ rf_runs' = rf_runs + 1
    /\ rf_backup' = NoBackup
    /\ UNCHANGED <<rf_args, promo_file, master_bak, NotRf>>
    /\ IF ~master_json.exists
       THEN /\ rf_report' = [outcome |-> "FileNotFoundError"]
            /\ UNCHANGED master_json
       ELSE LET removed_some ==
                    \E i \in 1..Len(master_json.content) :
                        clears(master_json.content[i])
            IN  /\ master_json' =
                       IF removed_some
                       THEN [exists |-> TRUE,
                             content |-> clear_extractos(master_json.content)]
                       ELSE master_json
                /\ rf_report' = [outcome |-> IF removed_some
                                                THEN "extractos cleared"
                                                ELSE "no changes"]

RfInit ==
    /\ rf_runs = 0
    /\ rf_args \in MainArgs \cup CleanTitlesArgs \cup ClearExtractosArgs
    /\ \E input \in RefinerInputs :
          master_json = input[1] /\ promo_file = input[2]
    /\ master_bak = NoFile
    /\ rf_report = NoReport
    /\ rf_backup = NoBackup

RfNext == RfMain \/ RfCleanTitles \/ RfClearExtractos

InitRefine ==
    RfInit /\ NzIdle /\ MgIdle /\ LkIdle /\ RsIdle /\ RgIdle /\ CpIdle
SpecRefine == InitRefine /\ [][RfNext]_vars

----------------------------------------------------------------------------
(* Properties of the identifier normalizer *)

\* str.strip() for spaces
RECURSIVE Trim(_)
Trim(s) ==
    IF s = <<>> THEN s
    ELSE IF Head(s) = " " THEN Trim(Tail(s))
    ELSE IF s[Len(s)] = " " THEN Trim(SubSeq(s, 1, Len(s) - 1))
    ELSE s

\* The episode pattern as the specification words it, anchored on the whole
\* trimmed identifier: "Ep" in any case, an optional separator (a space or a
\* dot), digits, and optionally a letter suffix after an optional separator
\* (underscore, hyphen or space).
EpisodePattern(raw) ==
    LET t  == Trim(raw)
        ok1 == Len(t) >= 3 /\ t[1] \in {"E", "e"} /\ t[2] \in {"P", "p"}
        ds == IF ok1 /\ t[3] \in {" ", "."} THEN 4 ELSE 3
        de == IF ok1 THEN RunEnd(t, ds, Digit) ELSE 0
        ls == IF de + 1 <= Len(t) /\ t[de + 1] \in {"_", "-", " "} THEN de + 2 ELSE de + 1
        le == IF ok1 /\ de >= ds THEN RunEnd(t, ls, Letter) ELSE 0
    IN IF ok1 /\ de >= ds /\ (de = Len(t) \/ (le >= ls /\ le = Len(t)))
       THEN [ok |-> TRUE, digits |-> SubSeq(t, ds, de),
             letters |-> IF de = Len(t) THEN <<>> ELSE SubSeq(t, ls, le)]
       ELSE [ok |-> FALSE, digits |-> <<>>, letters |-> <<>>]

RECURSIVE StripLeadingZeros(_)
StripLeadingZeros(d) ==
    IF d # <<>> /\ Head(d) = "0" THEN StripLeadingZeros(Tail(d)) ELSE d

\* the numeric group re-padded to three digits
Padded3(d) == Zfill3(StripLeadingZeros(d))

IsSuplLike(x) == \E w \in SuplMarkers : Contains(StrLower(x), w)

\* the loop has visited every item: src_file still holds the raw identifiers
\* and data what normalize_episode_id returned for them
NzVisited == nz_pc = "loop" /\ nz_idx = Len(data) /\ Len(data) > 0

\* C1: for every raw identifier matching the episode pattern the result is
\* 'Ep' + the number zero-padded to 3 digits + the suffix, a single a/b in
\* either case giving '_A'/'_B' and a supplement-like suffix giving '_Supl';
\* 'EP7' -> 'Ep007', 'Ep 105_a' -> 'Ep105_A', 'Ep12_bonus' -> 'Ep012_Supl'.
C1_NormalizeMatching ==
    NzVisited =>
        \A i \in 1..Len(data) :
            LET raw == src_file[i]
                out == data[i]
                m   == EpisodePattern(raw)
                head == <<"E", "p">> \o Padded3(m.digits)
            IN /\ m.ok =>
                    /\ Len(out) >= Len(head) /\ SubSeq(out, 1, Len(head)) = head
                    /\ m.letters = <<>> => out = head
                    /\ m.letters \in { <<"a">>, <<"A">> } => out = head \o <<"_", "A">>
                    /\ m.letters \in { <<"b">>, <<"B">> } => out = head \o <<"_", "B">>
                    /\ IsSuplLike(m.letters) => out = head \o <<"_", "S", "u", "p", "l">>
               /\ raw = <<"E","P","7">> => out = <<"E","p","0","0","7">>
               /\ raw = <<"E","p"," ","1","0","5","_","a">>
                      => out = <<"E","p","1","0","5","_","A">>
               /\ raw = <<"E","p","1","2","_","b","o","n","u","s">>
                      => out = <<"E","p","0","1","2","_","S","u","p","l">>

C1_Witness ==
    /\ NzVisited
    /\ src_file = << <<"E","p"," ","1","0","5","_","a">> >>
    /\ data = << <<"E","p","1","0","5","_","A">> >>
    /\ changes_made = 1

\* C2: when the raw identifier does not match, normalize returns the trimmed
\* input unchanged and a failure (a warning) is reported to the caller.
C2_FailureReported ==
    NzVisited =>
        \A i \in 1..Len(data) :
            LET raw == src_file[i] IN
            (raw # <<>> /\ ~NormSearch(RemoveSpaces(raw)).found) =>
                /\ data[i] = Trim(raw)
                /\ \E k \in 1..Len(nz_log) : nz_log[k] = "warning"

\* the canonical form Ep### or Ep###_<letters>
IsCanonicalId(s) ==
    /\ Len(s) >= 5
    /\ s[1] = "E" /\ s[2] = "p"
    /\ \A k \in 3..5 : s[k] \in Digit
    /\ \/ Len(s) = 5
       \/ /\ Len(s) >= 7
          /\ s[6] = "_"
          /\ \A k \in 7..Len(s) : s[k] \in Letter

\* C3: every identifier returned for a matching input has the canonical
\* form, whatever the length of the numeric group and whatever the suffix.
C3_CanonicalForm ==
    NzVisited =>
        \A i \in 1..Len(data) :
            EpisodePattern(src_file[i]).ok => IsCanonicalId(data[i])

----------------------------------------------------------------------------
(* Properties of the merge engine *)

\* build_episode_structure has returned: master_data is the merge output
Merged == pc \in {"save", "report", "done"}

\* C4: the episode number identifies exactly one Episode: entries denoting
\* the same numeric episode, however zero-padded, form one Episode whose
\* episode_number is the 3-digit string, and no two Episodes of the output
\* denote the same number.
C4_OneEpisodePerNumber ==
    Merged =>
        /\ \A i \in 1..Len(master_data) :
              /\ Len(master_data[i].Episode_number) = 3
              /\ \A k \in 1..3 : master_data[i].Episode_number[k] \in Digit
        /\ \A i, j \in 1..Len(master_data) :
              i # j => ParseInt(master_data[i].Episode_number)
                          # ParseInt(master_data[j].Episode_number)

\* C5: an Episode is 'Single' if and only if it has exactly one part and
\* that part is of class 'Only'; every other Episode is 'Dual'.
C5_SingleIffOneOnlyPart ==
    Merged =>
        \A i \in 1..Len(master_data) :
            LET e == master_data[i] IN
            /\ e.Episode_class \in {"Single", "Dual"}
            /\ e.Episode_class = "Single"
                  <=> (Len(e.Parts) = 1 /\ e.Parts[1].Part_class = Only)

\* an identifier in which an episode number can be read: "Ep" and a digit
HasEpisodeNumber(id) ==
    \E k \in 1..(Len(id) - 2) : id[k] = "E" /\ id[k + 1] = "p" /\ id[k + 2] \in Digit

ParseableEntries ==
    { i \in 1..Len(audiofeed_data) :
        /\ "episode_id" \in DOMAIN audiofeed_data[i]
        /\ HasEpisodeNumber(audiofeed_data[i].episode_id) }

\* where the part made of audio entry i is: (episode, position) pairs
PartsOfEntry(i) ==
    { <<e, k>> \in (1..Len(master_data)) \X (1..Len(audiofeed_data)) :
        /\ k <= Len(master_data[e].Parts)
        /\ master_data[e].Parts[k].Audio_URL = i }

RECURSIVE TotalParts(_)
TotalParts(eps) ==
    IF eps = <<>> THEN 0 ELSE Len(Head(eps).Parts) + TotalParts(Tail(eps))

\* C6: merge loses and invents no part: every parseable audio entry yields
\* exactly one part in exactly one Episode, the number of parts equals the
\* number of parseable entries, and a skipped entry is in no Episode.
C6_NoPartLostOrInvented ==
    Merged =>
        /\ TotalParts(master_data) = Cardinality(ParseableEntries)
        /\ \A i \in 1..Len(audiofeed_data) :
              IF i \in ParseableEntries
              THEN /\ Cardinality(PartsOfEntry(i)) = 1
                   /\ \A w \in PartsOfEntry(i) :
                         master_data[w[1]].Parts[w[2]].Episode_ID
                             = audiofeed_data[i].episode_id
              ELSE PartsOfEntry(i) = {}
        /\ warnings = Len(audiofeed_data) - Cardinality(ParseableEntries)

\* two entries of the same episode and class, and one entry without an id
C6_Witness ==
    /\ pc = "done"
    /\ Len(audiofeed_data) = 3
    /\ "episode_id" \notin DOMAIN audiofeed_data[2]
    /\ Len(master_data) = 1
    /\ Len(master_data[1].Parts) = 2
    /\ master_data[1].Parts[1].Part_class = master_data[1].Parts[2].Part_class
    /\ warnings = 1

\* C7: web_link and ref_links come from the web entry whose identifier is
\* the episode-level canonical id 'Ep###'; an Episode for which that entry
\* exists does not end with an empty web_link.
C7_WebLinkFromCanonicalEntry ==
    Merged =>
        \A i \in 1..Len(master_data) :
            LET e == master_data[i]
                canonical == <<"E", "p">> \o e.Episode_number
                hits == { k \in 1..Len(web_data) : web_data[k].ep_id = canonical }
            IN hits # {} =>
                  LET k == CHOOSE m \in hits : \A n \in hits : m <= n
                  IN /\ e.web_link = web_data[k].ep_web_link
                     /\ e.ref_links = web_data[k].ep_links
                     /\ e.web_link # ""

\* the distinct non-empty titles contributed by the audio entries of episode e
TitlesOf(e) ==
    { audiofeed_data[e.Parts[k].Audio_URL].title : k \in 1..Len(e.Parts) } \ {""}

\* C8: when the entries of one Episode contribute more than one distinct
\* non-empty title, the choice is put to the decision-maker and the title
\* is the chosen value, the first-seen one on a declined or invalid answer.
C8_TitleConflictExposed ==
    Merged =>
        \A i \in 1..Len(master_data) :
            LET e == master_data[i] IN
            Cardinality(TitlesOf(e)) > 1 =>
                \E p \in 1..Len(prompts) :
                    /\ prompts[p].field = "Title"
                    /\ { prompts[p].options[k] : k \in 1..Len(prompts[p].options) }
                           = TitlesOf(e)
                    /\ e.Title = PickOption(prompts[p].options, prompts[p].answer)

\* the fixed class order A, B, Supl, Only, then everything else
ClassRank(c) ==
    CASE c = <<"A">> -> 1
      [] c = <<"B">> -> 2
      [] c = <<"S", "u", "p", "l">> -> 3
      [] c = <<"O", "n", "l", "y">> -> 4
      [] OTHER -> 5

\* C9: in every Episode the parts are in the order A, B, Supl, Only, parts
\* of an unrecognized class last, and parts of equal rank in input order
\* (the audio url of an entry is its position in the feed).
C9_PartsOrdered ==
    Merged =>
        \A i \in 1..Len(master_data) :
            LET parts == master_data[i].Parts IN
            \A p, q \in 1..Len(parts) :
                p < q =>
                    /\ ClassRank(parts[p].Part_class) <= ClassRank(parts[q].Part_class)
                    /\ ClassRank(parts[p].Part_class) = ClassRank(parts[q].Part_class)
                          => parts[p].Audio_URL < parts[q].Audio_URL

\* the feed x, x, A of one episode comes out A, x, x
C9_Witness ==
    /\ pc = "done"
    /\ Len(master_data) = 1
    /\ Len(master_data[1].Parts) = 3
    /\ master_data[1].Parts[1].Part_class = <<"A">>
    /\ master_data[1].Parts[1].Audio_URL = 3
    /\ master_data[1].Parts[2].Part_class = <<"x">>
    /\ master_data[1].Parts[2].Audio_URL = 1
    /\ master_data[1].Parts[3].Part_class = <<"x">>
    /\ master_data[1].Parts[3].Audio_URL = 2

Unreadable(f) == files[f].status # "ok"

\* C10: if any of the three input documents is missing or malformed, the run
\* halts with a non-zero exit before the output file is opened: it never
\* gets past the load of that document, and never touches the output.
C10_HaltBeforeOutput ==
    /\ Unreadable("audio") => pc \in {"load_audio", "exited"}
    /\ Unreadable("cbinfo") => pc \in {"load_audio", "load_cbinfo", "exited"}
    /\ Unreadable("web") => pc \in {"load_audio", "load_cbinfo", "load_web", "exited"}
    /\ (\E f \in {"audio", "cbinfo", "web"} : Unreadable(f)) => ~output_file.opened
    /\ pc = "exited" =>
          /\ exit_code = 1
          /\ \E f \in {"audio", "cbinfo", "web"} : Unreadable(f)

\* the third document is malformed: the first two were loaded, then exit 1
C10_Witness ==
    /\ pc = "exited"
    /\ exit_code = 1
    /\ files.audio.status = "ok"
    /\ files.cbinfo.status = "ok"
    /\ files.web.status = "malformed"
    /\ cbinfo_data # <<>>
    /\ ~output_file.opened

----------------------------------------------------------------------------
(* Properties of the link curator *)

frequency_threshold == 3

\* the links of a document, and the episodes a link occurs in
LinksOfDoc(doc) ==
    UNION { {ep_links(doc[i])[j] : j \in 1..Len(ep_links(doc[i]))}
                : i \in 1..Len(doc) }
EpisodesWith(doc, link) ==
    { i \in 1..Len(doc) :
        \E j \in 1..Len(ep_links(doc[i])) : ep_links(doc[i])[j] = link }

\* C11: when the curated document is saved, no link that occurred in more
\* than frequency_threshold episodes of the document on disk is left in any
\* episode, and every link that occurred in exactly frequency_threshold
\* episodes has been put to the user in a confirmation.
C11_FrequentLinksRemoved ==
    [][(lk_pc = "save" /\ lk_pc' = "done") =>
          \A l \in LinksOfDoc(web_parse_file.content) :
             LET n == Cardinality(EpisodesWith(web_parse_file.content, l)) IN
             /\ n > frequency_threshold =>
                   EpisodesWith(web_parse_file'.content, l) = {}
             /\ n = frequency_threshold =>
                   \E k \in 1..Len(lk_confirms) : lk_confirms[k].subject = l
      ]_vars

\* the links of one episode once the confirmed domains are removed, both
\* sides of the host comparison lowered
WithoutHosts(links, doms) ==
    LET lowered == { StrLower(d) : d \in doms } IN
    SelectSeq(links, LAMBDA l : StrLower(l.netloc) \notin lowered)
ConfirmedDomains ==
    { lk_confirms[k].subject : k \in { k \in 1..Len(lk_confirms) :
        lk_confirms[k].kind = "domain" /\ lk_confirms[k].answer } }

\* C12: in a run without a domain search, the document saved holds, for
\* every episode, the links of the document on disk minus those whose host
\* is, case folded on both sides, a confirmed exclusion domain, in their
\* original order.
C12_ConfirmedDomainsRemoved ==
    [][(lk_pc = "save" /\ lk_pc' = "done" /\ lk_args = <<>>) =>
          /\ Len(web_parse_file'.content) = Len(web_parse_file.content)
          /\ \A i \in 1..Len(web_parse_file.content) :
                ep_links(web_parse_file'.content[i]) =
                    WithoutHosts(ep_links(web_parse_file.content[i]),
                                 ConfirmedDomains)
      ]_vars

----------------------------------------------------------------------------
(* Properties of the name resolver *)

NoMatch == <<>>
CanonicalNames(reg) == { reg[i].norm : i \in 1..Len(reg) }
Similarity(a, b) == fuzz_ratio(StrLower(a), StrLower(b))

\* The places of a registry a candidate is compared with: <<i, 0>> is the
\* canonical name of item i, <<i, k>> its k-th alias; they are met in
\* lexicographic order.
Places(reg) ==
    UNION { { <<i, k>> : k \in 0..Len(reg[i].aliases) } : i \in 1..Len(reg) }
PlaceText(reg, p) == IF p[2] = 0 THEN reg[p[1]].norm ELSE reg[p[1]].aliases[p[2]]
Before(p, q) == p[1] < q[1] \/ (p[1] = q[1] /\ p[2] <= q[2])

\* The resolution order as stated: exact canonical, else exact alias, else
\* the owner of the highest score that is eligible, the first met winning a
\* tie, else no match.  With positive set, a score of zero is not eligible.
Resolved(c, reg, threshold, positive) ==
    IF c \in CanonicalNames(reg) THEN c
    ELSE IF \E p \in Places(reg) : p[2] > 0 /\ PlaceText(reg, p) = c
       THEN reg[(CHOOSE p \in Places(reg) :
                    /\ p[2] > 0 /\ PlaceText(reg, p) = c
                    /\ \A q \in Places(reg) :
                          (q[2] > 0 /\ PlaceText(reg, q) = c) => Before(p, q))[1]].norm
    ELSE LET eligible == { p \in Places(reg) :
                 /\ ScoreAtLeast(Similarity(c, PlaceText(reg, p)), threshold)
                 /\ positive => Similarity(c, PlaceText(reg, p)).num > 0 }
         IN  IF eligible = {} THEN NoMatch
             ELSE reg[(CHOOSE p \in eligible : \A q \in eligible :
                          \/ ScoreGreater(Similarity(c, PlaceText(reg, p)),
                                          Similarity(c, PlaceText(reg, q)))
                          \/ /\ ~ScoreGreater(Similarity(c, PlaceText(reg, q)),
                                              Similarity(c, PlaceText(reg, p)))
                             /\ Before(p, q))[1]].norm

----------------------------------------------------------------------------
(* Properties of the registry-build session *)

\* the canonical names of the session: the targets of its mappings
Canon == dict_values(normalized.items)
AliasTarget(d, name) == d[CHOOSE i \in 1..Len(d) : d[i].key = name].val
Selections == { <<"1">>, <<"2">>, <<"3">> }
SeqSet(q) == { q[i] : i \in 1..Len(q) }

\* the step of the loop that put a name to the user, and what was asked
Asking == rg_pc = "loop" /\ Len(rg_asked') = Len(rg_asked) + 1
Asked == rg_asked'[Len(rg_asked')]
Accepted(e) ==
    e.user_input \in Selections /\ ParseInt(e.user_input) <= Len(e.matches)

\* a canonical name can be suggested: it is among the suggestions shown, or
\* three suggestions are shown that score at least as well
Suggestible(e, c) ==
    \/ c \in SeqSet(e.matches)
    \/ /\ Len(e.matches) = 3
       /\ \A m \in SeqSet(e.matches) :
             ~ScoreGreater(fuzz_ratio(e.name, c), fuzz_ratio(e.name, m))

\* what C14 says of the inputs other than a selection, and of the session
SessionRest ==
    /\ rg_pc = "loop" => Canon \subseteq Canon'
    /\ Asking =>
          /\ Asked.user_input = <<>> =>
                /\ AliasTarget(aliases', Asked.name) = Asked.name
                /\ Asked.name \in Canon'
          /\ (Asked.user_input # <<>> /\ Asked.user_input \notin Selections) =>
                /\ AliasTarget(aliases', Asked.name) = Asked.user_input
                /\ Asked.user_input \in Canon'
          /\ \A c \in Canon \ {Asked.name} : Suggestible(Asked, c)

----------------------------------------------------------------------------
(* Properties of the completion and validation tools *)

\* the record the k-th item of the trace is about, and whether the tool
\* went as far as deriving suggestions for it
ItemOf(k) ==
    IF cp_tool = "master_completion"
       THEN cp_episodes[cp_parts[k].episode_idx].Parts[cp_parts[k].part_idx]
       ELSE cp_episodes[k]
ListOf(rec) ==
    IF cp_tool = "master_completion"
       THEN IF "Contertulios" \in DOMAIN rec THEN rec.Contertulios ELSE <<>>
       ELSE IF "contertulios" \in DOMAIN rec THEN rec.contertulios ELSE <<>>
Examined(k) ==
    CASE cp_tool = "master_completion" -> TRUE
      [] cp_tool = "completion" ->
            /\ ItemOf(k).entry_type = "episode"
            /\ "contertulios" \in DOMAIN ItemOf(k) /\ ItemOf(k).contertulios = <<>>
      [] cp_tool = "validate" ->
            /\ ItemOf(k).entry_type = "episode"
            /\ "contertulios" \in DOMAIN ItemOf(k) /\ ItemOf(k).contertulios # <<>>

\* the raw tokens extracted for an item, those a canonical name is derived
\* from, and the canonical names derived that the item does not hold yet
TokensOf(k) == extract_names_from_description(get_description(ItemOf(k)))
SupportOf(k, norm) ==
    { t \in TokensOf(k) :
        find_best_normalized_match(t, cp_names, cp_threshold) = norm }
DerivedFor(k) ==
    { norm \in CanonicalNames(cp_names) :
        /\ SupportOf(k, norm) # {}
        /\ StrLower(norm) \notin { StrLower(ListOf(ItemOf(k))[i]) :
                                     i \in 1..Len(ListOf(ItemOf(k))) } }
OneTokenWithoutSpace(S) == Cardinality(S) = 1 /\ \A t \in S : ~has_space(t)
NoSpaceAtAll(S) == \A t \in S : ~has_space(t)
Discarded(k, norm) == norm \notin SeqSet(cp_trace[k].suggestions)

\* a candidate set of one single-word token gives nothing to add
LoneWordAddsNothing ==
    \A k \in 1..Len(cp_trace) :
        (Cardinality(TokensOf(k)) = 1 /\ NoSpaceAtAll(TokensOf(k))) =>
            cp_trace[k].added = <<>>

\* C15 as stated: a derived suggestion is discarded if and only if it is
\* derived from exactly one raw token and that token has no space; and a
\* candidate set of one single-word token yields nothing added, whatever is
\* answered.
C15_DiscardAsStated ==
    /\ LoneWordAddsNothing
    /\ \A k \in 1..Len(cp_trace) : Examined(k) =>
          \A norm \in DerivedFor(k) :
              Discarded(k, norm) <=> OneTokenWithoutSpace(SupportOf(k, norm))

\* C15 amended: in the tools of normalize_contertulios.py the rule is as
\* stated; the completion tool of the master version also discards a
\* suggestion derived from several tokens none of which has a space.
C15_Discard ==
    /\ LoneWordAddsNothing
    /\ \A k \in 1..Len(cp_trace) : Examined(k) =>
          \A norm \in DerivedFor(k) :
              Discarded(k, norm) <=>
                  \/ OneTokenWithoutSpace(SupportOf(k, norm))
                  \/ /\ cp_tool = "master_completion"
                     /\ NoSpaceAtAll(SupportOf(k, norm))

\* an interactive run is over in which the suggestion from the lone token
\* 'Héctor' was discarded and another item's suggestion was put and added
C15_Witness ==
    /\ cp_pc = "returned"
    /\ ~non_interactive
    /\ \E k, j \in 1..Len(cp_trace) :
          /\ Examined(k)
          /\ TokensOf(k) = {Hector}
          /\ DerivedFor(k) = {HectorSocas}
          /\ cp_trace[k].suggestions = <<>>
          /\ cp_trace[j].suggestions # <<>>
          /\ cp_trace[j].asked # <<>>
          /\ cp_trace[j].added # <<>>

\* C16: in non-interactive mode every name added to an item is derived from
\* at least one raw token that has a space.
C16_NoAutoConfirmOnSingleWords ==
    non_interactive =>
        \A k \in 1..Len(cp_trace) :
            \A norm \in SeqSet(cp_trace[k].added) :
                ~NoSpaceAtAll(SupportOf(k, norm))

----------------------------------------------------------------------------
(* Properties of the derived-field refiner *)

\* the step is one run of main()
MainRun ==
    rf_runs' = rf_runs + 1 /\ ~rf_args.clean_titles /\ ~rf_args.clear_extractos

\* the master file is what the last run of main() left as its result: the run
\* went to its end and wrote whatever it had to update
ResultOfRun ==
    /\ rf_report.outcome = "done"
    /\ rf_report.updates_made => rf_report.wrote

ReportsNothing(report) ==
    /\ report.date_updates = 0
    /\ report.duration_updates = 0
    /\ report.link_stats = <<>>
    /\ ~report.updates_made

\* C17: a run of the refiner on the result of a previous run of the same
\* tasks, nothing else having changed, reports zero updates and does not
\* write the master file.
C17_SecondRunChangesNothing ==
    [][(ResultOfRun /\ MainRun) =>
          /\ ReportsNothing(rf_report')
          /\ ~rf_report'.wrote
          /\ master_json' = master_json]_vars

\* a first run has written dates, durations and fewer links, and the second
\* run, made without a new backup, went to its end over that result
C17_Witness ==
    /\ rf_runs = 2
    /\ rf_args.add_dates /\ rf_args.add_duration /\ rf_args.clean_links
    /\ rf_report.outcome = "done"
    /\ ReportsNothing(rf_report)
    /\ master_bak.exists
    /\ \E i \in 1..Len(master_json.content) :
          /\ master_json.content[i].publication_date # None
          /\ master_bak.content[i].publication_date = None
          /\ master_json.content[i].total_duration_seconds # None
          /\ master_bak.content[i].total_duration_seconds = None
          /\ Len(master_json.content[i].ref_links)
               < Len(master_bak.content[i].ref_links)

\* A duration as the specification reads it: the text between the colons,
\* two or three numbers, anything else being worth nothing
RECURSIVE Components(_)
Components(s) ==
    IF \E i \in 1..Len(s) : s[i] = ":"
    THEN LET last == CHOOSE i \in 1..Len(s) :
                         s[i] = ":" /\ \A j \in (i + 1)..Len(s) : s[j] # ":"
         IN  Append(Components(SubSeq(s, 1, last - 1)),
                    SubSeq(s, last + 1, Len(s)))
    ELSE <<s>>
Numeric(s) == s # <<>> /\ \A i \in 1..Len(s) : s[i] \in Digit
StatedSeconds(s) ==
    LET c == Components(Trim(s))
    IN  IF Len(c) \notin {2, 3} \/ \E i \in 1..Len(c) : ~Numeric(c[i]) THEN 0
        ELSE IF Len(c) = 3
        THEN ParseInt(c[1]) * 3600 + ParseInt(c[2]) * 60 + ParseInt(c[3])
        ELSE ParseInt(c[1]) * 60 + ParseInt(c[2])
RECURSIVE StatedTotal(_)
StatedTotal(parts) ==
    IF parts = <<>> THEN 0
    ELSE StatedSeconds(Head(parts).Duration) + StatedTotal(Tail(parts))
TotalToWrite(episode) ==
    /\ StatedTotal(episode.Parts) > 0
    /\ episode.total_duration_seconds # Some(StatedTotal(episode.Parts))

\* the step is a run of main() that reaches the task named by the flag: the
\* file is there and the operator did not stop the run at the backup
RunReaches(flag) ==
    /\ MainRun
    /\ flag
    /\ master_json.exists
    /\ rf_report'.outcome # "aborted"

\* C18: total_duration_seconds is the sum over the parts of the duration read
\* as HH:MM:SS or MM:SS, an empty or malformed duration (wrong number of
\* components, or a component that is not a number) counting 0 and never
\* aborting the run; the field is written only when the total is > 0 and
\* differs from the stored value; '1:02:03' is 3723, '45:10' is 2710, '' is 0.
C18_TotalDurationAsStated ==
    [][/\ parse_duration(<<"1", ":", "0", "2", ":", "0", "3">>) = 3723
       /\ parse_duration(<<"4", "5", ":", "1", "0">>) = 2710
       /\ parse_duration(<<>>) = 0
       /\ (RunReaches(rf_args.add_duration) /\ rf_report'.outcome # "TypeError") =>
             /\ rf_report'.outcome = "done"
             /\ rf_report'.duration_updates =
                  Cardinality({ i \in 1..Len(master_json.content) :
                                  TotalToWrite(master_json.content[i]) })
             /\ rf_report'.wrote =>
                  \A i \in 1..Len(master_json.content) :
                      master_json'.content[i].total_duration_seconds =
                          IF TotalToWrite(master_json.content[i])
                          THEN Some(StatedTotal(master_json.content[i].Parts))
                          ELSE master_json.content[i].total_duration_seconds]_vars

\* A date text the refiner accepts: written in one of the four layouts and
\* naming a day and a time that exist
MonthLengths(year) ==
    <<31, IF year % 4 = 0 /\ (year % 100 # 0 \/ year % 400 = 0) THEN 29 ELSE 28,
      31, 30, 31, 30, 31, 31, 30, 31, 30, 31>>
Readable(text) ==
    /\ text # None
    /\ text.layout \in {RfcTz, Rfc, IsoDT, IsoD}
    /\ text.year \in 1..9999
    /\ text.month \in 1..12
    /\ text.day \in 1..MonthLengths(text.year)[text.month]
    /\ text.hour \in 0..23 /\ text.minute \in 0..59 /\ text.second \in 0..59

\* the moment a readable text names, as <<day, second of the day>> counted
\* from 1 January of year 1, at offset zero; a text without an offset is read
\* as written
\* the days of the years 1..year, a leap day every 4th year but the
\* centuries not divisible by 400
DaysOfYears(year) ==
    365 * year + year \div 4 - year \div 100 + year \div 400
RECURSIVE DaysOfMonths(_, _)
DaysOfMonths(year, month) ==
    IF month = 0 THEN 0
    ELSE DaysOfMonths(year, month - 1) + MonthLengths(year)[month]
Moment(text) ==
    LET secs == text.hour * 3600 + text.minute * 60 + text.second
                - (IF text.layout = RfcTz THEN text.offset * 60 ELSE 0)
        days == DaysOfYears(text.year - 1) + DaysOfMonths(text.year, text.month - 1)
                + text.day
    IN  <<days + secs \div 86400, secs % 86400>>
Earlier(a, b) ==
    \/ Moment(a)[1] < Moment(b)[1]
    \/ Moment(a)[1] = Moment(b)[1] /\ Moment(a)[2] < Moment(b)[2]

ReadableDates(parts) ==
    { i \in 1..Len(parts) : Readable(parts[i].Date) }
\* the earliest readable date of the parts, the first of them if several
EarliestDate(parts) ==
    parts[CHOOSE i \in ReadableDates(parts) :
              /\ \A j \in ReadableDates(parts) :
                    ~Earlier(parts[j].Date, parts[i].Date)
              /\ \A j \in ReadableDates(parts) :
                    j < i => Earlier(parts[i].Date, parts[j].Date)].Date
TwoDigits(n) == <<DigitChar(n \div 10), DigitChar(n % 10)>>
\* DD/MM/YYYY
DayMonthYear(text) ==
    TwoDigits(text.day) \o <<"/">> \o TwoDigits(text.month) \o <<"/">>
    \o TwoDigits(text.year \div 100) \o TwoDigits(text.year % 100)
DateToWrite(episode) ==
    /\ ReadableDates(episode.Parts) # {}
    /\ episode.publication_date
         # Some(DayMonthYear(EarliestDate(episode.Parts)))

\* C19: publication_date is the chronologically earliest date read from the
\* parts, as DD/MM/YYYY, whatever mix of the four accepted layouts the parts
\* use; a part whose date cannot be read is ignored and the run never fails
\* on the dates.
C19_PublicationDateAsStated ==
    [][RunReaches(rf_args.add_dates) =>
          /\ rf_report'.outcome # "TypeError"
          /\ rf_report'.outcome = "done" =>
                /\ rf_report'.date_updates =
                     Cardinality({ i \in 1..Len(master_json.content) :
                                     DateToWrite(master_json.content[i]) })
                /\ rf_report'.wrote =>
                     \A i \in 1..Len(master_json.content) :
                         master_json'.content[i].publication_date =
                             IF DateToWrite(master_json.content[i])
                             THEN Some(DayMonthYear(
                                     EarliestDate(master_json.content[i].Parts)))
                             ELSE master_json.content[i].publication_date]_vars

\* The prefix the specification describes, at the start of a title: "Ep", an
\* optional space, two or three digits, an optional underscore with letters,
\* a colon and an optional space. PrefixLengths holds the length of every way
\* to read such a prefix.
PrefixLengths(title) ==
    { n \in 1..Len(title) :
        \E sp \in 0..1, digits \in 2..3, letters \in 0..Len(title), end \in 0..1 :
            LET d1 == 3 + sp
                u1 == d1 + digits
                colon == IF letters = 0 THEN u1 ELSE u1 + 1 + letters
            IN  /\ n = colon + end
                /\ title[1] = "E" /\ Len(title) >= 2 /\ title[2] = "p"
                /\ sp = 1 => title[3] = " "
                /\ \A k \in d1..(u1 - 1) : title[k] \in Digit
                /\ letters > 0 =>
                      /\ title[u1] = "_"
                      /\ \A k \in (u1 + 1)..(u1 + letters) : title[k] \in Letter
                /\ title[colon] = ":"
                /\ end = 1 => title[n] = " " }
HasPrefix(title) == PrefixLengths(title) # {}
\* the title without its prefix, the space after the colon going with it
WithoutPrefix(title) ==
    LET n == CHOOSE m \in PrefixLengths(title) :
                 \A k \in PrefixLengths(title) : k <= m
    IN  SubSeq(title, n + 1, Len(title))

\* the step is one run of the title cleanup over an existing master file
CleanupRun ==
    rf_runs' = rf_runs + 1 /\ rf_args.clean_titles /\ master_json.exists

\* C20: the title cleanup takes the leading 'Ep###:' / 'Ep###_X:' prefix off
\* every title that has one, once, leaves every other title alone, and a
\* cleanup run over the output of a cleanup run changes no title.
C20_TitleCleanupAsStated ==
    [][CleanupRun =>
          /\ Len(master_json'.content) = Len(master_json.content)
          /\ \A i \in 1..Len(master_json.content) :
                master_json'.content[i].Title =
                    IF HasPrefix(master_json.content[i].Title)
                    THEN WithoutPrefix(master_json.content[i].Title)
                    ELSE master_json.content[i].Title
          /\ rf_report.outcome = "titles cleaned" =>
                \A i \in 1..Len(master_json.content) :
                    master_json'.content[i].Title = master_json.content[i].Title]_vars

----------------------------------------------------------------------------
(* Properties of the identifier normalizer over several passes *)

\* the step is the end of the loop of a pass: the count is final and the file
\* is written or left
PassEnds == nz_pc = "loop" /\ nz_pc' = "done"

\* the pass before this one left the source normalized: it wrote its changes
\* or had none to write
NormalizedBefore ==
    /\ nz_console # <<>>
    /\ nz_console[Len(nz_console)]
         \in {"Successfully normalized", "No changes needed"}

\* C27: normalize is idempotent, normalize(normalize(s)) = normalize(s) for
\* every identifier s, and a pass over a source that a pass has already
\* normalized counts zero changes and does not write the file.
C27_NormalizeIdempotent ==
    [][/\ NzVisited =>
            \A i \in 1..Len(data) : normalize_episode_id(data[i]) = data[i]
       /\ (NormalizedBefore /\ PassEnds) =>
            /\ changes_made = 0
            /\ src_file' = src_file
            /\ nz_console'[Len(nz_console')] = "No changes needed"]_vars

\* 'Ep 105_a' was normalized by a first pass and a second pass has found
\* nothing to change in 'Ep105_A'
C27_Witness ==
    /\ nz_console = <<"Successfully normalized", "No changes needed">>
    /\ bak_file.content = << <<"E","p"," ","1","0","5","_","a">> >>
    /\ src_file = << <<"E","p","1","0","5","_","A">> >>
    /\ data = src_file

----------------------------------------------------------------------------
(* Properties of the registry over its sessions *)

\* the target of an alias is not itself an alias of another name
ChainFree(d) ==
    \A i, j \in 1..Len(d) : d[j].key = d[i].val => d[j].val = d[i].val

\* C28: after a registry-build session every name that is the target of an
\* alias is final: it is no alias key, or it is mapped to itself; no answers
\* of the operator give a chain raw -> X -> Y with X different from Y.
C28_NoAliasChain ==
    rg_pc \in {"save", "done"} => ChainFree(aliases)

\* the document as the previous session saved it, not yet written again
SavedBefore == contertulios_file.content

\* C29: a session run on the document a previous session saved loads it
\* without error, asks nothing about a name that is already in the aliases,
\* and keeps every alias mapping of the previous session.
C29_SessionOnSavedRegistry ==
    rg_session >= 2 =>
        /\ rg_pc # "crashed"
        /\ rg_pc \in {"loop", "save"} =>
              /\ \A k \in 1..Len(rg_asked) :
                    ~\E i \in 1..Len(SavedBefore.aliases) :
                        SavedBefore.aliases[i].key = rg_asked[k].name
              /\ \A i \in 1..Len(SavedBefore.aliases) :
                    \E j \in 1..Len(aliases) :
                        aliases[j] = SavedBefore.aliases[i]

----------------------------------------------------------------------------
(* Properties of the validation of existing guest lists *)

Lowered(names) == [i \in 1..Len(names) |-> StrLower(names[i])]

NoRepeat(names) ==
    \A i, j \in 1..Len(names) : names[i] = names[j] => i = j

\* C30: validate_contertulios never adds a guest twice to an episode, also when
\* several raw names of the description map to the same canonical name, and
\* adds no name the list already holds, compared without regard to case.
C30_NoDuplicateGuest ==
    cp_tool = "validate" =>
        \A k \in 1..Len(cp_trace) :
            /\ NoRepeat(Lowered(cp_trace[k].added))
            /\ \A i \in 1..Len(cp_trace[k].added) :
                 \A j \in 1..Len(cp_episodes[k].contertulios) :
                    StrLower(cp_trace[k].added[i]) #
                        StrLower(cp_episodes[k].contertulios[j])

----------------------------------------------------------------------------
(* Properties of the unattended runs *)

\* the completion tools under --non-interactive: nothing is asked, every
\* suggestion is taken, and every listed part is visited
CompletionUnattended ==
    non_interactive =>
        /\ \A k \in 1..Len(cp_trace) :
              /\ cp_trace[k].asked = <<>>
              /\ cp_tool # "validate" =>
                     cp_trace[k].added = cp_trace[k].suggestions
        /\ (cp_tool = "master_completion" /\ cp_pc = "returned") =>
               Len(cp_trace) = Len(cp_parts)

\* the link curator under --non-interactive: nothing is asked, and the run
\* ends by saving the document unless web_parse.json is missing
CurationUnattended ==
    lk_unattended =>
        /\ lk_confirms = <<>>
        /\ lk_pc = "exited" => (lk_exit = 1 /\ ~web_parse_file.exists)

\* C24: a non-interactive run of a completion tool or of the link curator
\* reaches its end without waiting on a prompt, the suggestions and the
\* removals being accepted by default.
C24_UnattendedRunNeverPrompts == CompletionUnattended /\ CurationUnattended

----------------------------------------------------------------------------
(* Properties of the refiner's backups and writes *)

\* the step is one run of the refiner, whatever its flags
RefinerRun == rf_runs' = rf_runs + 1

\* C21: with --dry-run the refiner writes nothing to the master file and
\* creates no backup, whichever operation flags go with it: both files are
\* after the run what they were before it.
C21_DryRunWritesNothing ==
    [][(RefinerRun /\ rf_args.dry_run) =>
          /\ master_json' = master_json
          /\ master_bak' = master_bak]_vars

\* the operator was asked and answered y
OperatorWentOn(backup) ==
    /\ backup.made = "failed"
    /\ backup.answer # None
    /\ StrLower(backup.answer.val) = <<"y">>

\* C22: outside dry-run, a run that overwrites the master file with another
\* content has first copied the previous content to the backup, or the
\* operator has chosen to go on without a backup.
C22_BackupBeforeOverwrite ==
    [][(RefinerRun /\ ~rf_args.dry_run /\ master_json.exists
           /\ master_json'.content # master_json.content) =>
          \/ /\ rf_backup'.made = "created"
             /\ master_bak' = MasterFile(master_json.content)
          \/ OperatorWentOn(rf_backup')]_vars

\* the run reported no transform and no write
NothingApplied(report) ==
    /\ report.outcome \in {"aborted", "OSError"}
    /\ report.outcome = "aborted" =>
          /\ ~report.updates_made /\ ~report.wrote
          /\ report.date_updates = 0 /\ report.duration_updates = 0
          /\ report.link_stats = <<>>

----------------------------------------------------------------------------
(* Properties of the alias substitution *)

\* C25: substitute_aliases applied to its own output returns that output
\* unchanged, for every registry (those with two canonical names, or an alias
\* and a canonical name, that differ only by case included), and it keeps the
\* length of each contertulios list, a name staying at its place or giving it
\* to the name it stands for.
C25_SubstitutionIdempotent ==
    (cp_tool = "substitute" /\ cp_pc = "returned") =>
        /\ substitute_aliases(cp_updated, cp_names) = cp_updated
        /\ Len(cp_updated) = Len(cp_episodes)
        /\ \A k \in 1..Len(cp_updated) :
              "contertulios" \in DOMAIN cp_episodes[k] =>
                 Len(cp_updated[k].contertulios) =
                     Len(cp_episodes[k].contertulios)

----------------------------------------------------------------------------
(* Properties of the two shapes of the web collection *)

\* C26: the link curator takes the web collection in both shapes, keyed by
\* episode and listed: in neither does the run end on an exception, and in
\* both a run that saves has put every domain of the exclusion list to the
\* user.
C26_BothShapesAccepted ==
    /\ lk_pc # "raised"
    /\ lk_pc = "done" => Len(lk_confirms) >= Len(stats_keys(exclusions))

====
